---------------------------- MODULE Spec2Model ----------------------------
(***************************************************************************)
(* Model of the CloudTrail log-to-policy compiler of aws_tools             *)
(* (iam/sdk/policy_generator): the activity analyzer                       *)
(* (unique_events_from_logs.py) and the policy generator                   *)
(* (generate_policy.py).                                                   *)
(*                                                                         *)
(* Python str values are TLA+ strings; str methods are modelled by the     *)
(* operators of the first section.  A Python dict with optional keys is a  *)
(* TLA+ record whose DOMAIN holds exactly the keys present.  JSON values   *)
(* whose Python type the code dispatches on are tagged records             *)
(* [t |-> "str" | "dict" | "list" | "num", v |-> ...].                     *)
(***************************************************************************)
EXTENDS Integers, Sequences, FiniteSets, TLC

(***************************************************************************)
(* Bounds of the model                                                     *)
(***************************************************************************)
\* longest list of raw events handed to analyze_user_activity
MaxEvents == 2
\* largest number of synthetic activities of one service in an analysis file
MaxBulk == 248
\* longest list of catalogued activities in an analysis file
MaxActs == 2
\* longest list of catalogued activities beside synthetic ones
MaxCompanions == 1
\* statements in a list of constructed PolicyStatements
MaxStmts == 2
\* longest list of log files handed to _process_all_log_files
MaxFiles == 2
\* longest list of events in a run that searches a role name
MaxRoleEvents == 2

\* the most prefixes given to list_log_files
MaxPrefixes == 2

(***************************************************************************)
(* Python str operations                                                   *)
(***************************************************************************)
Chr(s, i) == SubSeq(s, i, i)

StartsWith(s, p) == Len(s) >= Len(p) /\ SubSeq(s, 1, Len(p)) = p

EndsWith(s, p) == Len(s) >= Len(p) /\ SubSeq(s, Len(s) - Len(p) + 1, Len(s)) = p

\* p in s
Contains(s, p) == \E i \in 1..(Len(s) - Len(p) + 1) : SubSeq(s, i, i + Len(p) - 1) = p

\* index of the first occurrence of p in s at or after position i, 0 if none
RECURSIVE FindFrom(_, _, _)
FindFrom(s, p, i) ==
    IF i + Len(p) - 1 > Len(s) THEN 0
    ELSE IF SubSeq(s, i, i + Len(p) - 1) = p THEN i
    ELSE FindFrom(s, p, i + 1)

\* s.split(sep): the list of the pieces between the occurrences of sep
RECURSIVE Split(_, _)
Split(s, sep) ==
    LET j == FindFrom(s, sep, 1)
    IN  IF j = 0 THEN <<s>>
        ELSE <<SubSeq(s, 1, j - 1)>> \o Split(SubSeq(s, j + Len(sep), Len(s)), sep)

\* s.replace(old, new)
RECURSIVE Replace(_, _, _)
Replace(s, old, new) ==
    LET j == FindFrom(s, old, 1)
    IN  IF j = 0 THEN s
        ELSE SubSeq(s, 1, j - 1) \o new \o Replace(SubSeq(s, j + Len(old), Len(s)), old, new)

UpperToLower ==
    [A |-> "a", B |-> "b", C |-> "c", D |-> "d", E |-> "e", F |-> "f", G |-> "g",
     H |-> "h", I |-> "i", J |-> "j", K |-> "k", L |-> "l", M |-> "m", N |-> "n",
     O |-> "o", P |-> "p", Q |-> "q", R |-> "r", S |-> "s", T |-> "t", U |-> "u",
     V |-> "v", W |-> "w", X |-> "x", Y |-> "y", Z |-> "z"]

LowerToUpper ==
    [a |-> "A", b |-> "B", c |-> "C", d |-> "D", e |-> "E", f |-> "F", g |-> "G",
     h |-> "H", i |-> "I", j |-> "J", k |-> "K", l |-> "L", m |-> "M", n |-> "N",
     o |-> "O", p |-> "P", q |-> "Q", r |-> "R", s |-> "S", t |-> "T", u |-> "U",
     v |-> "V", w |-> "W", x |-> "X", y |-> "Y", z |-> "Z"]

\* s.lower()
RECURSIVE Lower(_)
Lower(s) ==
    IF Len(s) = 0 THEN s
    ELSE LET c == Chr(s, 1)
         IN  (IF c \in DOMAIN UpperToLower THEN UpperToLower[c] ELSE c)
                 \o Lower(SubSeq(s, 2, Len(s)))

\* s.upper()
RECURSIVE Upper(_)
Upper(s) ==
    IF Len(s) = 0 THEN s
    ELSE LET c == Chr(s, 1)
         IN  (IF c \in DOMAIN LowerToUpper THEN LowerToUpper[c] ELSE c)
                 \o Upper(SubSeq(s, 2, Len(s)))

IsLetter(c) == c \in DOMAIN UpperToLower \/ c \in DOMAIN LowerToUpper

\* s.title(): a letter that follows a non-letter (or starts s) is upper case,
\* every other letter lower case
RECURSIVE TitleFrom(_, _)
TitleFrom(s, afterLetter) ==
    IF Len(s) = 0 THEN s
    ELSE LET c == Chr(s, 1)
         IN  (IF afterLetter THEN Lower(c) ELSE Upper(c))
                 \o TitleFrom(SubSeq(s, 2, Len(s)), IsLetter(c))

Title(s) == TitleFrom(s, FALSE)

Digits == "0123456789"

IsDigit(c) == Len(c) = 1 /\ Contains(Digits, c)

DigitVal(c) == (CHOOSE i \in 1..10 : Chr(Digits, i) = c) - 1

\* the printable ASCII characters in code-point order: 32..95, then 97..126
\* (the grave accent, 96, is not written in any string of the model)
AsciiLow == " !\"#$%&'()*+,-./0123456789:;<=>?@ABCDEFGHIJKLMNOPQRSTUVWXYZ[\\]^_"

AsciiHigh == "abcdefghijklmnopqrstuvwxyz{|}~"

\* ord(c)
Ord(c) ==
    IF Contains(AsciiLow, c)
    THEN 31 + (CHOOSE i \in 1..Len(AsciiLow) : Chr(AsciiLow, i) = c)
    ELSE 96 + (CHOOSE i \in 1..Len(AsciiHigh) : Chr(AsciiHigh, i) = c)

\* position of the first character at which a and b differ (one past the
\* shorter string when one is a prefix of the other)
RECURSIVE FirstDiff(_, _, _)
FirstDiff(a, b, i) ==
    IF i > Len(a) \/ i > Len(b) THEN i
    ELSE IF Chr(a, i) # Chr(b, i) THEN i
    ELSE FirstDiff(a, b, i + 1)

\* a < b in Python's str order (lexicographic by code point)
StrLess(a, b) ==
    LET i == FirstDiff(a, b, 1)
    IN  IF i > Len(a) THEN i <= Len(b)
        ELSE IF i > Len(b) THEN FALSE
        ELSE Ord(Chr(a, i)) < Ord(Chr(b, i))

Range(seq) == {seq[i] : i \in DOMAIN seq}

Reverse(seq) == [i \in 1..Len(seq) |-> seq[Len(seq) + 1 - i]]

\* sum(seq), halving the list so that long lists do not nest deeply
RECURSIVE SumSeq(_)
SumSeq(seq) ==
    IF Len(seq) = 0 THEN 0
    ELSE IF Len(seq) = 1 THEN seq[1]
    ELSE LET h == Len(seq) \div 2
         IN  SumSeq(SubSeq(seq, 1, h)) + SumSeq(SubSeq(seq, h + 1, Len(seq)))

\* f"{n:02d}"
Fmt02d(n) == IF n < 10 THEN "0" \o ToString(n) ELSE ToString(n)


(***************************************************************************)
(* JSON values and json.dumps(value, separators=(",", ":"))                *)
(***************************************************************************)
JStr(s) == [t |-> "str", v |-> s]
JList(l) == [t |-> "list", v |-> l]
JDict(d) == [t |-> "dict", v |-> d]

\* the empty dict
EmptyDict == << >>

RECURSIVE SumOver(_, _)
SumOver(f, keys) ==
    IF keys = {} THEN 0
    ELSE LET k == CHOOSE e \in keys : TRUE IN f[k] + SumOver(f, keys \ {k})

\* len(json.dumps(j, separators=(",", ":"))); no string of the model holds a
\* character that json.dumps escapes
RECURSIVE JsonLen(_)
JsonLen(j) ==
    IF j.t = "str" THEN Len(j.v) + 2
    ELSE IF j.t = "list"
    THEN 2 + SumSeq([i \in 1..Len(j.v) |-> JsonLen(j.v[i])])
           + (IF Len(j.v) > 0 THEN Len(j.v) - 1 ELSE 0)
    ELSE LET keys == DOMAIN j.v
             item == [k \in keys |-> Len(k) + 2 + 1 + JsonLen(j.v[k])]
         IN  2 + SumOver(item, keys)
               + (IF keys # {} THEN Cardinality(keys) - 1 ELSE 0)

(***************************************************************************)
(* generate_policy.py: constants                                           *)
(***************************************************************************)
MAX_POLICY_SIZE == 6144
MAX_ACTIONS_PER_STATEMENT == 100
MIN_ARN_PARTS == 3
MIN_ARN_FORMAT_PARTS == 6

(***************************************************************************)
(* generate_policy.py: EnhancedCloudTrailToIAMMapper                       *)
(***************************************************************************)
\* keys of event_to_action_map that map to the one action of the same name
SameNameMappings ==
    {"s3:GetBucketVersioning", "s3:GetBucketLocation", "s3:ListBucket",
     "s3:GetObject", "s3:PutObject", "s3:DeleteObject", "s3:GetBucketPolicy",
     "s3:PutBucketPolicy", "s3:GetBucketAcl", "s3:PutBucketAcl",
     "s3:CreateBucket", "s3:DeleteBucket", "s3:GetBucketLogging",
     "s3:PutBucketLogging", "s3:GetBucketNotification",
     "s3:PutBucketNotification", "s3:GetBucketWebsite", "s3:PutBucketWebsite",
     "s3:GetObjectAcl", "s3:PutObjectAcl", "s3:GetObjectTagging",
     "s3:PutObjectTagging", "s3:GetObjectVersion", "s3:DeleteObjectVersion",
     "s3:AbortMultipartUpload", "ec2:DescribeInstances", "ec2:RunInstances",
     "ec2:TerminateInstances", "ec2:StartInstances", "ec2:StopInstances",
     "ec2:RebootInstances", "ec2:DescribeImages", "ec2:DescribeSecurityGroups",
     "ec2:CreateSecurityGroup", "ec2:DeleteSecurityGroup",
     "ec2:AuthorizeSecurityGroupIngress", "ec2:RevokeSecurityGroupIngress",
     "ec2:AuthorizeSecurityGroupEgress", "ec2:RevokeSecurityGroupEgress",
     "ec2:DescribeVpcs", "ec2:DescribeSubnets", "ec2:CreateVpc",
     "ec2:DeleteVpc", "ec2:CreateSubnet", "ec2:DeleteSubnet",
     "ec2:DescribeVolumes", "ec2:CreateVolume", "ec2:DeleteVolume",
     "ec2:AttachVolume", "ec2:DetachVolume", "ec2:DescribeSnapshots",
     "ec2:CreateSnapshot", "ec2:DeleteSnapshot", "ec2:DescribeKeyPairs",
     "ec2:CreateKeyPair", "ec2:DeleteKeyPair", "ec2:DescribeNetworkInterfaces",
     "ec2:CreateNetworkInterface", "ec2:DeleteNetworkInterface",
     "ec2:AttachNetworkInterface", "ec2:DetachNetworkInterface", "iam:GetUser",
     "iam:ListUsers", "iam:CreateUser", "iam:DeleteUser", "iam:UpdateUser",
     "iam:GetRole", "iam:ListRoles", "iam:CreateRole", "iam:DeleteRole",
     "iam:UpdateRole", "iam:GetPolicy", "iam:ListPolicies", "iam:CreatePolicy",
     "iam:DeletePolicy", "iam:AttachRolePolicy", "iam:DetachRolePolicy",
     "iam:AttachUserPolicy", "iam:DetachUserPolicy",
     "iam:ListAttachedRolePolicies", "iam:ListAttachedUserPolicies",
     "iam:GetAccessKeyLastUsed", "iam:CreateAccessKey", "iam:DeleteAccessKey",
     "iam:UpdateAccessKey", "iam:ListAccessKeys", "iam:GetGroup",
     "iam:ListGroups", "iam:CreateGroup", "iam:DeleteGroup",
     "iam:AddUserToGroup", "iam:RemoveUserFromGroup", "sts:AssumeRole",
     "sts:GetCallerIdentity", "sts:DecodeAuthorizationMessage",
     "sts:GetAccessKeyInfo", "sts:GetSessionToken",
     "sts:AssumeRoleWithWebIdentity", "sts:AssumeRoleWithSAML",
     "lambda:ListFunctions", "lambda:GetFunction", "lambda:CreateFunction",
     "lambda:UpdateFunctionCode", "lambda:UpdateFunctionConfiguration",
     "lambda:DeleteFunction", "lambda:InvokeFunction", "lambda:GetPolicy",
     "lambda:AddPermission", "lambda:RemovePermission",
     "lambda:CreateEventSourceMapping", "lambda:DeleteEventSourceMapping",
     "lambda:GetEventSourceMapping", "lambda:ListEventSourceMappings",
     "cloudformation:DescribeStacks", "cloudformation:ListStacks",
     "cloudformation:CreateStack", "cloudformation:UpdateStack",
     "cloudformation:DeleteStack", "cloudformation:DescribeStackResources",
     "cloudformation:DescribeStackEvents", "cloudformation:GetTemplate",
     "cloudformation:ValidateTemplate", "cloudformation:CreateChangeSet",
     "cloudformation:DeleteChangeSet", "cloudformation:DescribeChangeSet",
     "cloudformation:ExecuteChangeSet", "cloudwatch:GetMetricStatistics",
     "cloudwatch:ListMetrics", "cloudwatch:PutMetricData",
     "cloudwatch:DescribeAlarms", "cloudwatch:PutMetricAlarm",
     "cloudwatch:DeleteAlarms", "cloudwatch:EnableAlarmActions",
     "cloudwatch:DisableAlarmActions", "logs:CreateLogGroup",
     "logs:CreateLogStream", "logs:PutLogEvents", "logs:DescribeLogGroups",
     "logs:DescribeLogStreams", "logs:GetLogEvents", "logs:FilterLogEvents",
     "logs:DeleteLogGroup", "logs:DeleteLogStream", "logs:PutRetentionPolicy",
     "logs:DeleteRetentionPolicy", "rds:DescribeDBInstances",
     "rds:CreateDBInstance", "rds:DeleteDBInstance", "rds:ModifyDBInstance",
     "rds:StartDBInstance", "rds:StopDBInstance", "rds:RebootDBInstance",
     "rds:DescribeDBClusters", "rds:CreateDBCluster", "rds:DeleteDBCluster",
     "rds:ModifyDBCluster", "rds:DescribeDBSnapshots", "rds:CreateDBSnapshot",
     "rds:DeleteDBSnapshot", "dynamodb:ListTables", "dynamodb:CreateTable",
     "dynamodb:DeleteTable", "dynamodb:DescribeTable", "dynamodb:UpdateTable",
     "dynamodb:PutItem", "dynamodb:GetItem", "dynamodb:UpdateItem",
     "dynamodb:DeleteItem", "dynamodb:Query", "dynamodb:Scan",
     "dynamodb:BatchGetItem", "dynamodb:BatchWriteItem",
     "dynamodb:DescribeBackup", "dynamodb:CreateBackup",
     "dynamodb:DeleteBackup", "sns:ListTopics", "sns:CreateTopic",
     "sns:DeleteTopic", "sns:Publish", "sns:Subscribe", "sns:Unsubscribe",
     "sns:GetTopicAttributes", "sns:SetTopicAttributes",
     "sns:ListSubscriptions", "sns:ListSubscriptionsByTopic", "sqs:ListQueues",
     "sqs:CreateQueue", "sqs:DeleteQueue", "sqs:SendMessage",
     "sqs:ReceiveMessage", "sqs:DeleteMessage", "sqs:GetQueueAttributes",
     "sqs:SetQueueAttributes", "sqs:GetQueueUrl", "cloudtrail:LookupEvents",
     "cloudtrail:DescribeTrails", "cloudtrail:GetTrailStatus",
     "cloudtrail:CreateTrail", "cloudtrail:DeleteTrail",
     "cloudtrail:UpdateTrail", "cloudtrail:StartLogging",
     "cloudtrail:StopLogging", "kms:Decrypt", "kms:Encrypt",
     "kms:GenerateDataKey", "kms:DescribeKey", "kms:ListKeys", "kms:CreateKey",
     "kms:CreateAlias", "kms:DeleteAlias", "secretsmanager:GetSecretValue",
     "secretsmanager:CreateSecret", "secretsmanager:DeleteSecret",
     "secretsmanager:UpdateSecret", "secretsmanager:DescribeSecret",
     "secretsmanager:ListSecrets", "ssm:GetParameter", "ssm:GetParameters",
     "ssm:PutParameter", "ssm:DeleteParameter", "ssm:DescribeParameters",
     "ssm:GetParametersByPath", "apigateway:GET", "apigateway:POST",
     "apigateway:PUT", "apigateway:DELETE", "apigateway:PATCH",
     "ecs:ListClusters", "ecs:DescribeClusters", "ecs:CreateCluster",
     "ecs:DeleteCluster", "ecs:ListServices", "ecs:DescribeServices",
     "ecs:CreateService", "ecs:DeleteService", "ecs:UpdateService",
     "ecs:ListTasks", "ecs:DescribeTasks", "ecs:RunTask", "ecs:StopTask"}

\* keys of event_to_action_map that map to an action of another name
RenamedMappings ==
    {<<"s3:GetBucketCors", <<"s3:GetBucketCORS">>>>,
     <<"s3:PutBucketCors", <<"s3:PutBucketCORS">>>>,
     <<"s3:GetBucketEncryption", <<"s3:GetEncryptionConfiguration">>>>,
     <<"s3:PutBucketEncryption", <<"s3:PutEncryptionConfiguration">>>>,
     <<"s3:ListMultipartUploads", <<"s3:ListMultipartUploadParts">>>>,
     <<"s3:CompleteMultipartUpload", <<"s3:PutObject">>>>,
     <<"sqs:SendMessageBatch", <<"sqs:SendMessage">>>>,
     <<"sqs:DeleteMessageBatch", <<"sqs:DeleteMessage">>>>,
     <<"kms:DeleteKey", <<"kms:ScheduleKeyDeletion">>>>}

\* _build_wildcard_operations: service -> operations that always use "*"
wildcard_operations ==
    [ec2 |-> {"DescribeRegions", "DescribeAvailabilityZones",
            "DescribeImages", "DescribeInstances",
            "DescribeSecurityGroups", "DescribeVpcs", "DescribeSubnets",
            "DescribeKeyPairs", "DescribeInstanceTypes",
            "DescribeVolumes", "DescribeSnapshots",
            "DescribeNetworkInterfaces", "DescribeRouteTables",
            "DescribeInternetGateways", "DescribeNatGateways"},
     iam |-> {"ListUsers", "ListRoles", "ListPolicies", "ListGroups",
            "GetAccountSummary", "GetCredentialReport",
            "ListAccountAliases", "ListAccessKeys",
            "ListAttachedRolePolicies", "ListAttachedUserPolicies"},
     s3 |-> {"ListAllMyBuckets", "ListBuckets",
            "GetAccountPublicAccessBlock"},
     lambda |-> {"ListFunctions", "ListLayers", "ListEventSourceMappings"},
     rds |-> {"DescribeDBInstances", "DescribeDBClusters",
            "DescribeDBEngineVersions", "DescribeDBParameterGroups",
            "DescribeDBSubnetGroups"},
     cloudformation |-> {"ListStacks", "DescribeStacks", "ListStackResources"},
     cloudwatch |-> {"ListMetrics", "DescribeAlarms"},
     logs |-> {"DescribeLogGroups", "DescribeLogStreams"},
     dynamodb |-> {"ListTables"},
     sns |-> {"ListTopics", "ListSubscriptions"},
     sqs |-> {"ListQueues"},
     sts |-> {"GetCallerIdentity", "DecodeAuthorizationMessage",
            "GetAccessKeyInfo"},
     kms |-> {"ListKeys", "ListAliases"},
     secretsmanager |-> {"ListSecrets"},
     ssm |-> {"DescribeParameters"},
     ecs |-> {"ListClusters", "ListServices", "ListTasks"},
     cloudtrail |-> {"DescribeTrails", "GetTrailStatus"}]

\* self.event_to_action_map[event_key]
event_to_action_map(event_key) ==
    IF event_key \in SameNameMappings THEN <<event_key>>
    ELSE (CHOOSE m \in RenamedMappings : m[1] = event_key)[2]

InEventToActionMap(event_key) ==
    event_key \in SameNameMappings \/ \E m \in RenamedMappings : m[1] = event_key

\* map_event_to_actions: the list of actions, and whether the "No explicit
\* mapping found" warning was printed
map_event_to_actions(service, event_name) ==
    LET event_key == service \o ":" \o event_name
    IN  IF InEventToActionMap(event_key)
        THEN [actions |-> event_to_action_map(event_key), warned |-> FALSE]
        ELSE IF (service = "s3" /\ StartsWith(event_name, "Get"))
                  \/ (service = "s3" /\ StartsWith(event_name, "Put"))
        THEN [actions |-> <<"s3:" \o event_name>>, warned |-> FALSE]
        ELSE IF service = "s3" /\ StartsWith(event_name, "Delete")
        THEN [actions |-> <<"s3:" \o event_name>>, warned |-> FALSE]
        ELSE [actions |-> <<service \o ":" \o event_name>>, warned |-> TRUE]

\* _is_relevant_arn
is_relevant_arn(arn, service, event_name) ==
    IF ~StartsWith(arn, "arn:aws:") THEN FALSE
    ELSE LET arn_parts == Split(arn, ":")
         IN  IF Len(arn_parts) < MIN_ARN_PARTS THEN FALSE
             ELSE LET arn_service == arn_parts[3]
                  IN  IF arn_service = service THEN TRUE
                      ELSE IF service = "sts" /\ event_name = "AssumeRole"
                                /\ arn_service = "iam" THEN TRUE
                      ELSE service = "iam" /\ arn_service = "iam"

\* _is_valid_arn_format
is_valid_arn_format(arn) ==
    IF ~StartsWith(arn, "arn:aws:") THEN FALSE
    ELSE Len(Split(arn, ":")) >= MIN_ARN_FORMAT_PARTS

\* _filter_and_validate_arns
filter_and_validate_arns(resource_arns, service, event_name) ==
    {arn \in resource_arns :
        /\ arn # ""
        /\ is_relevant_arn(arn, service, event_name)
        /\ is_valid_arn_format(arn)}

\* call_info.get(key, "") for a str-valued key
GetStr(call_info, key) == IF key \in DOMAIN call_info THEN call_info[key] ELSE ""

\* call_info.get("resources", [])
GetResources(call_info) ==
    IF "resources" \in DOMAIN call_info THEN call_info.resources ELSE << >>

IsWildcardOperation(service, event_name) ==
    service \in DOMAIN wildcard_operations /\ event_name \in wildcard_operations[service]

\* a variant of extract_resource_arns that consults the wildcard operations
\* table only when no recorded ARN is valid
extract_resource_arns_valid_first(api_call_info) ==
    LET Extract(service, event_name) ==
            LET Choose(valid_arns) ==
                    IF valid_arns # {} THEN valid_arns
                    ELSE {"*"}
            IN  Choose(filter_and_validate_arns(Range(GetResources(api_call_info)),
                                                service, event_name))
    IN  Extract(Lower(GetStr(api_call_info, "service")),
                GetStr(api_call_info, "event_name"))

\* a variant of extract_resource_arns that returns the recorded resources as
\* they are, without _filter_and_validate_arns
extract_resource_arns_unfiltered(api_call_info) ==
    LET Extract(service, event_name) ==
            LET Choose(resource_arns) ==
                    IF IsWildcardOperation(service, event_name) THEN {"*"}
                    ELSE IF resource_arns # {} THEN resource_arns
                    ELSE {"*"}
            IN  Choose(Range(GetResources(api_call_info)))
    IN  Extract(Lower(GetStr(api_call_info, "service")),
                GetStr(api_call_info, "event_name"))

\* extract_resource_arns; the returned list is only ever turned into a set by
\* its callers, so the model returns the set of its elements
extract_resource_arns(api_call_info) ==
    LET Extract(service, event_name) ==
            LET Choose(valid_arns) ==
                    IF IsWildcardOperation(service, event_name) THEN {"*"}
                    ELSE IF valid_arns # {} THEN valid_arns
                    ELSE {"*"}
            IN  Choose(filter_and_validate_arns(Range(GetResources(api_call_info)),
                                                service, event_name))
    IN  Extract(Lower(GetStr(api_call_info, "service")),
                GetStr(api_call_info, "event_name"))

(***************************************************************************)
(* Analysis files given to the policy generator                            *)
(*                                                                         *)
(* analysis_data["activities"] is a dict in file order: a sequence of      *)
(* [key, info] entries with distinct keys.                                 *)
(***************************************************************************)
ActCatalog ==
    << [key |-> "s3:GetObject",
        info |-> [service |-> "s3", event_name |-> "GetObject",
                  resources |-> <<"arn:aws:s3:::my-bucket/key1">>]],
       [key |-> "s3:PutObject",
        info |-> [service |-> "s3", event_name |-> "PutObject",
                  resources |-> <<"arn:aws:s3:::my-bucket/key1">>]],
       [key |-> "iam:ListUsers",
        info |-> [service |-> "iam", event_name |-> "ListUsers",
                  resources |-> <<"arn:aws:iam::123456789012:user/bob">>]],
       [key |-> "s3:DeleteObject",
        info |-> [service |-> "s3", event_name |-> "DeleteObject",
                  resources |-> <<"arn:aws:kms:us-east-1:123456789012:key/k1">>]],
       [key |-> "sts:AssumeRole",
        info |-> [service |-> "sts", event_name |-> "AssumeRole",
                  resources |-> <<"arn:aws:iam::123456789012:role/Deploy">>]],
       [key |-> "ec2:RunInstances",
        info |-> [service |-> "ec2", event_name |-> "RunInstances",
                  resources |-> << >>]],
       [key |-> "s3:GetBucketCors",
        info |-> [service |-> "s3", event_name |-> "GetBucketCors",
                  resources |-> <<"arn:aws:s3:::my-bucket", "my-bucket">>]],
       [key |-> "glue:GetTable",
        info |-> [service |-> "glue", event_name |-> "GetTable",
                  resources |-> <<"arn:aws:glue:us-east-1:123456789012:table/db/t1">>]],
       [key |-> "s3:ListBuckets",
        info |-> [service |-> "s3", event_name |-> "ListBuckets",
                  resources |-> << >>]],
       [key |-> "unknown",
        info |-> [event_name |-> "GetObject", resources |-> << >>]],
       \* an s3 operation the mapping table does not list
       [key |-> "s3:GetObjectTorrent",
        info |-> [service |-> "s3", event_name |-> "GetObjectTorrent",
                  resources |-> <<"arn:aws:s3:::my-bucket/key1">>]] >>

\* the catalogued activities an analysis file with synthetic activities also holds
Companions == {1, 6, 8}

\* a synthetic activity: an operation of a service the mapper has no table for
BulkService == "glue"

BulkEventName(i) == "BulkOperation" \o ToString(100 + i)

BulkActivity(i) ==
    [key |-> BulkService \o ":" \o BulkEventName(i),
     info |-> [service |-> BulkService, event_name |-> BulkEventName(i),
               resources |-> << >>]]

\* numbers of synthetic activities: around the per-statement cap and around
\* the point where the statements' sizes add up to MAX_POLICY_SIZE
BulkSizes ==
    {1, MAX_ACTIONS_PER_STATEMENT, MAX_ACTIONS_PER_STATEMENT + 1, 150,
     MaxBulk - 2, MaxBulk - 1, MaxBulk}

\* the sequences of at most k distinct elements of S
DistinctSeqs(S, k) ==
    {q \in UNION {[1..m -> S] : m \in 0..k} :
        \A i, j \in DOMAIN q : i # j => q[i] # q[j]}

\* [acts: catalogued activities in file order, bulk: number of synthetic ones]
AnalysisInputs ==
    {[acts |-> c, bulk |-> 0] : c \in DistinctSeqs(DOMAIN ActCatalog, MaxActs)}
        \cup {[acts |-> c, bulk |-> n] :
                 c \in DistinctSeqs(Companions, MaxCompanions), n \in BulkSizes}

\* the activities of an analysis file
ActivitiesOf(input) ==
    [i \in 1..Len(input.acts) |-> ActCatalog[input.acts[i]]]
        \o [i \in 1..input.bulk |-> BulkActivity(i)]

(***************************************************************************)
(* sorted()                                                                *)
(***************************************************************************)
\* the action names that occur in large sets, each once
KnownStringsSeq ==
    LET FirstOccurrences(all) ==
            LET Pick(idx) == [k \in 1..Len(idx) |-> all[idx[k]]]
            IN  Pick(SelectSeq([i \in 1..Len(all) |-> i],
                               LAMBDA i : \A j \in 1..(i - 1) : all[j] # all[i]))
        CatalogAction(info) ==
            map_event_to_actions(Lower(GetStr(info, "service")),
                                 GetStr(info, "event_name")).actions[1]
        InCatalog(catalog) ==
            [i \in 1..Len(catalog) |-> CatalogAction(catalog[i].info)]
    IN  FirstOccurrences([i \in 1..(MaxBulk + 1) |->
                             BulkService \o ":" \o BulkEventName(i)]
                           \o InCatalog(ActCatalog))

KnownStrings == Range(KnownStringsSeq)

SortedKnownStrings == SortSeq(KnownStringsSeq, StrLess)

\* sorted(S) for a set of str: the element at position i is the one with
\* i - 1 smaller elements.  A set of known strings is read off the sorted
\* list of all of them, which gives the same list.
Sorted(S) ==
    IF S \subseteq KnownStrings
    THEN SelectSeq(SortedKnownStrings, LAMBDA e : e \in S)
    ELSE LET ByRank(rank) == [i \in 1..Cardinality(S) |-> CHOOSE e \in S : rank[e] = i - 1]
         IN  ByRank([e \in S |-> Cardinality({y \in S : StrLess(y, e)})])

(***************************************************************************)
(* generate_policy.py: PolicyStatement                                     *)
(***************************************************************************)
\* statement_id = None
NoSid == "<None>"

\* PolicyStatement(actions=..., resources=..., statement_id=...)
PolicyStatement(actions, resources, statement_id) ==
    [effect |-> "Allow", actions |-> actions, resources |-> resources,
     conditions |-> EmptyDict, statement_id |-> statement_id]

\* a variant of to_dict that writes "*" for every resource set that holds "*"
to_dict_star_collapses(stmt) ==
    LET StrList(sorted) == JList([i \in 1..Len(sorted) |-> JStr(sorted[i])])
        base == ("Effect" :> JStr(stmt.effect))
                  @@ ("Action" :> StrList(Sorted(stmt.actions)))
        sid == IF stmt.statement_id # NoSid /\ stmt.statement_id # ""
               THEN "Sid" :> JStr(stmt.statement_id) ELSE EmptyDict
        res == IF stmt.resources # {}
               THEN IF "*" \in stmt.resources
                    THEN "Resource" :> JStr("*")
                    ELSE "Resource" :> StrList(Sorted(stmt.resources))
               ELSE "Resource" :> JStr("*")
        cond == IF stmt.conditions # EmptyDict
                THEN "Condition" :> JDict(stmt.conditions) ELSE EmptyDict
    IN  JDict(base @@ sid @@ res @@ cond)

\* PolicyStatement.to_dict
to_dict(stmt) ==
    LET StrList(sorted) == JList([i \in 1..Len(sorted) |-> JStr(sorted[i])])
        base == ("Effect" :> JStr(stmt.effect))
                  @@ ("Action" :> StrList(Sorted(stmt.actions)))
        sid == IF stmt.statement_id # NoSid /\ stmt.statement_id # ""
               THEN "Sid" :> JStr(stmt.statement_id) ELSE EmptyDict
        res == IF stmt.resources # {}
               THEN IF Cardinality(stmt.resources) = 1 /\ "*" \in stmt.resources
                    THEN "Resource" :> JStr("*")
                    ELSE "Resource" :> StrList(Sorted(stmt.resources))
               ELSE "Resource" :> JStr("*")
        cond == IF stmt.conditions # EmptyDict
                THEN "Condition" :> JDict(stmt.conditions) ELSE EmptyDict
    IN  JDict(base @@ sid @@ res @@ cond)

\* PolicyStatement.estimated_size
estimated_size(stmt) == JsonLen(to_dict(stmt))

(***************************************************************************)
(* generate_policy_statements                                              *)
(***************************************************************************)
\* a variant of the bucket lookup that takes the first bucket of the service,
\* whatever its resource_key
BucketIndex_by_service(buckets, service, resource_key) ==
    IF \E i \in 1..Len(buckets) : buckets[i].service = service
    THEN CHOOSE i \in 1..Len(buckets) : buckets[i].service = service
    ELSE 0

\* index of the bucket service_statements[service][resource_key], 0 if absent.
\* resource_key = hash(frozenset(resource_arns)): the model keys a bucket by
\* the frozenset itself (distinct frozensets are taken to hash differently).
BucketIndex(buckets, service, resource_key) ==
    IF \E i \in 1..Len(buckets) :
           buckets[i].service = service /\ buckets[i].resource_key = resource_key
    THEN CHOOSE i \in 1..Len(buckets) :
           buckets[i].service = service /\ buckets[i].resource_key = resource_key
    ELSE 0

\* one iteration of "for call_info in activities.values()" (lines 616-638):
\* acc.buckets holds service_statements and service_resources in the order
\* their (service, resource_key) entries were created, acc.warnings the pairs
\* map_event_to_actions warned about
GroupCall(acc, call_info) ==
    LET Group(service, event_name) ==
            IF service = "" \/ event_name = "" THEN acc
            ELSE LET Into(mapped, resource_arns) ==
                         LET Put(iam_actions, resource_key, i) ==
                                 IF i = 0
                                 THEN Append(acc.buckets,
                                             [service |-> service,
                                              resource_key |-> resource_key,
                                              actions |-> iam_actions,
                                              resources |-> resource_arns])
                                 ELSE [acc.buckets EXCEPT
                                         ![i].actions = @ \cup iam_actions,
                                         ![i].resources = @ \cup resource_arns]
                         IN  [buckets |-> Put(Range(mapped.actions), resource_arns,
                                              BucketIndex(acc.buckets, service,
                                                          resource_arns)),
                              warnings |-> IF mapped.warned
                                           THEN acc.warnings
                                                  \cup {service \o ":" \o event_name}
                                           ELSE acc.warnings]
                 IN  Into(map_event_to_actions(service, event_name),
                          extract_resource_arns(call_info))
    IN  Group(Lower(GetStr(call_info, "service")), GetStr(call_info, "event_name"))

\* the loop over the activities; long lists are halved, the first half grouped
\* before the second
RECURSIVE GroupCalls(_, _)
GroupCalls(acc, calls) ==
    IF Len(calls) = 0 THEN acc
    ELSE IF Len(calls) = 1 THEN GroupCall(acc, calls[1])
    ELSE LET Then(first) ==
                 IF Len(first.buckets) >= 0
                 THEN GroupCalls(first, SubSeq(calls, Len(calls) \div 2 + 1, Len(calls)))
                 ELSE first
         IN  Then(GroupCalls(acc, SubSeq(calls, 1, Len(calls) \div 2)))

\* list(actions): the set in CPython's iteration order, which depends on the
\* process's string-hash seed; the model knows two orders
HashSeeds == {0, 1}

ListOfSet(S, seed) == IF seed = 0 THEN Sorted(S) ELSE Reverse(Sorted(S))

Min(a, b) == IF a <= b THEN a ELSE b

\* a variant of action_chunks that never splits
action_chunks_unsplit(actions, seed) == <<actions>>

\* action_chunks (lines 652-654)
action_chunks(actions, seed) ==
    IF Cardinality(actions) <= MAX_ACTIONS_PER_STATEMENT THEN <<actions>>
    ELSE LET Chunks(l) ==
                 [k \in 1..((Len(l) + MAX_ACTIONS_PER_STATEMENT - 1)
                               \div MAX_ACTIONS_PER_STATEMENT) |->
                    Range(SubSeq(l, (k - 1) * MAX_ACTIONS_PER_STATEMENT + 1,
                                 Min(k * MAX_ACTIONS_PER_STATEMENT, Len(l))))]
         IN  Chunks(ListOfSet(actions, seed))

\* the statements of one bucket, numbered from statement_counter (lines 656-663)
BucketStatements(bucket, statement_counter, seed) ==
    LET Build(chunks) ==
            [k \in 1..Len(chunks) |->
                PolicyStatement(chunks[k], bucket.resources,
                                Title(bucket.service) \o "Access"
                                    \o Fmt02d(statement_counter + k - 1))]
    IN  Build(action_chunks(bucket.actions, seed))

\* "for service in sorted(service_statements.keys())", and within a service
\* the buckets in the order they were created
OrderedBuckets(buckets) ==
    LET of(s) == SelectSeq(buckets, LAMBDA b : b.service = s)
        RECURSIVE cat(_, _)
        cat(services, k) ==
            IF k > Len(services) THEN << >> ELSE of(services[k]) \o cat(services, k + 1)
    IN  cat(Sorted({buckets[i].service : i \in 1..Len(buckets)}), 1)

RECURSIVE CreateStatements(_, _, _, _)
CreateStatements(ordered, k, statement_counter, seed) ==
    IF k > Len(ordered) THEN << >>
    ELSE LET Rest(made) ==
                 made \o CreateStatements(ordered, k + 1, statement_counter + Len(made),
                                          seed)
         IN  Rest(BucketStatements(ordered[k], statement_counter, seed))

\* generate_policy_statements: the statements and the mapping warnings printed
generate_policy_statements(analysis_data, seed) ==
    LET Infos(activities) == [i \in 1..Len(activities) |-> activities[i].info]
        Result(grouped) ==
            [statements |-> CreateStatements(OrderedBuckets(grouped.buckets), 1, 1, seed),
             buckets |-> grouped.buckets,
             warnings |-> grouped.warnings]
    IN  Result(GroupCalls([buckets |-> << >>, warnings |-> {}],
                          Infos(IF "activities" \in DOMAIN analysis_data
                                THEN analysis_data.activities ELSE << >>)))

(***************************************************************************)
(* optimize_policy_size and create_iam_policy                              *)
(***************************************************************************)
\* sorted(statements, key=estimated_size, reverse=True) as the list of the
\* statements' positions: larger first, equal sizes in their original order
SortedBySize(sizes) ==
    LET before(i, j) == sizes[i] > sizes[j] \/ (sizes[i] = sizes[j] /\ i < j)
    IN  SortSeq([i \in 1..Len(sizes) |-> i], before)

\* a variant of the packing loop that keeps the largest statement once more in
\* place of a statement that does not fit
RECURSIVE Pack_repeating(_, _, _, _, _)
Pack_repeating(statements, sizes, order, k, acc) ==
    IF k > Len(order) THEN acc
    ELSE Pack_repeating(
              statements, sizes, order, k + 1,
              IF acc.current_size + sizes[order[k]] <= MAX_POLICY_SIZE
              THEN [acc EXCEPT !.kept = Append(@, order[k]),
                               !.current_size = @ + sizes[order[k]]]
              ELSE [acc EXCEPT !.kept = Append(@, order[1]),
                               !.skip_reports =
                       Append(@, [actions |-> Cardinality(statements[order[k]].actions)])])

\* a variant of the packing loop that leaves out every statement after the
\* first one that does not fit
RECURSIVE Pack_stopping(_, _, _, _, _)
Pack_stopping(statements, sizes, order, k, acc) ==
    IF k > Len(order) THEN acc
    ELSE Pack_stopping(
              statements, sizes, order, k + 1,
              IF acc.skip_reports = << >>
                   /\ acc.current_size + sizes[order[k]] <= MAX_POLICY_SIZE
              THEN [acc EXCEPT !.kept = Append(@, order[k]),
                               !.current_size = @ + sizes[order[k]]]
              ELSE [acc EXCEPT !.skip_reports =
                       Append(@, [actions |-> Cardinality(statements[order[k]].actions)])])

\* the packing loop (lines 685-691): the positions kept, the running size and
\* one "Skipping statement with N actions" report per statement left out
RECURSIVE Pack(_, _, _, _, _)
Pack(statements, sizes, order, k, acc) ==
    IF k > Len(order) THEN acc
    ELSE Pack(statements, sizes, order, k + 1,
              IF acc.current_size + sizes[order[k]] <= MAX_POLICY_SIZE
              THEN [acc EXCEPT !.kept = Append(@, order[k]),
                               !.current_size = @ + sizes[order[k]]]
              ELSE [acc EXCEPT !.skip_reports =
                       Append(@, [actions |-> Cardinality(statements[order[k]].actions)])])

\* optimize_policy_size: the statements returned (kept: their positions in the
\* argument), the per-statement skip reports and the skipped count of the
\* final warning (0 when the warning is not printed)
optimize_policy_size(statements) ==
    LET Result(sizes, total_size) ==
            IF total_size <= MAX_POLICY_SIZE
            THEN [statements |-> statements, kept |-> [i \in 1..Len(statements) |-> i],
                  skip_reports |-> << >>, skipped |-> 0, total_size |-> total_size]
            ELSE LET Packed(packed) ==
                         [statements |-> [k \in 1..Len(packed.kept) |->
                                             statements[packed.kept[k]]],
                          kept |-> packed.kept,
                          skip_reports |-> packed.skip_reports,
                          skipped |-> IF Len(packed.kept) < Len(statements)
                                      THEN Len(statements) - Len(packed.kept) ELSE 0,
                          total_size |-> total_size]
                 IN  Packed(Pack(statements, sizes, SortedBySize(sizes), 1,
                                 [kept |-> << >>, current_size |-> 0,
                                  skip_reports |-> << >>]))
        WithSizes(sizes) == Result(sizes, SumSeq(sizes))
    IN  WithSizes([i \in 1..Len(statements) |-> estimated_size(statements[i])])

\* create_iam_policy
create_iam_policy(statements) ==
    LET with_actions == SelectSeq(statements, LAMBDA stmt : stmt.actions # {})
    IN  JDict(("Version" :> JStr("2012-10-17"))
                @@ ("Statement" :> JList([i \in 1..Len(with_actions) |->
                                             to_dict(with_actions[i])])))

(***************************************************************************)
(* unique_events_from_logs.py: event times                                 *)
(*                                                                         *)
(* datetime.fromisoformat(text.replace("Z", "+00:00")) is modelled for the *)
(* texts YYYY-MM-DD(T| )HH:MM:SS with an optional +HH:MM or -HH:MM; every  *)
(* other text is a ValueError.  The event times of the model's events are  *)
(* of this form or hold no digit at all.                                   *)
(***************************************************************************)
IsDigits(s) == \A i \in 1..Len(s) : IsDigit(Chr(s, i))

\* int(s) for a string of digits
RECURSIVE ToNat(_)
ToNat(s) ==
    IF Len(s) = 0 THEN 0
    ELSE 10 * ToNat(SubSeq(s, 1, Len(s) - 1)) + DigitVal(Chr(s, Len(s)))

IsLeap(y) == (y % 4 = 0 /\ y % 100 # 0) \/ y % 400 = 0

DaysInMonth(y, m) ==
    IF m = 2 THEN (IF IsLeap(y) THEN 29 ELSE 28)
    ELSE IF m \in {4, 6, 9, 11} THEN 30 ELSE 31

DaysBeforeMonth(y, m) ==
    <<0, 31, 59, 90, 120, 151, 181, 212, 243, 273, 304, 334>>[m]
        + (IF m > 2 /\ IsLeap(y) THEN 1 ELSE 0)

\* the text has the punctuation and digits of YYYY-MM-DD?HH:MM:SS[+HH:MM]
IsoShape(t) ==
    /\ Len(t) \in {19, 25}
    /\ IsDigits(SubSeq(t, 1, 4)) /\ Chr(t, 5) = "-"
    /\ IsDigits(SubSeq(t, 6, 7)) /\ Chr(t, 8) = "-"
    /\ IsDigits(SubSeq(t, 9, 10)) /\ Chr(t, 11) \in {"T", " "}
    /\ IsDigits(SubSeq(t, 12, 13)) /\ Chr(t, 14) = ":"
    /\ IsDigits(SubSeq(t, 15, 16)) /\ Chr(t, 17) = ":"
    /\ IsDigits(SubSeq(t, 18, 19))
    /\ Len(t) = 25 =>
          /\ Chr(t, 20) \in {"+", "-"}
          /\ IsDigits(SubSeq(t, 21, 22)) /\ Chr(t, 23) = ":"
          /\ IsDigits(SubSeq(t, 24, 25))

\* the fields of a text of that shape; utcoffset in minutes, "naive" if absent
IsoFields(t) ==
    [year |-> ToNat(SubSeq(t, 1, 4)), month |-> ToNat(SubSeq(t, 6, 7)),
     day |-> ToNat(SubSeq(t, 9, 10)), hour |-> ToNat(SubSeq(t, 12, 13)),
     minute |-> ToNat(SubSeq(t, 15, 16)), second |-> ToNat(SubSeq(t, 18, 19)),
     utcoffset |-> IF Len(t) = 19 THEN "naive"
                   ELSE ToString((IF Chr(t, 20) = "-" THEN -1 ELSE 1)
                          * (60 * ToNat(SubSeq(t, 21, 22)) + ToNat(SubSeq(t, 24, 25))))]

IsoFieldsValid(f) ==
    /\ f.year >= 1 /\ f.month \in 1..12
    /\ f.day >= 1 /\ f.day <= DaysInMonth(f.year, f.month)
    /\ f.hour <= 23 /\ f.minute <= 59 /\ f.second <= 59

\* datetime.fromisoformat(text) raises ValueError
FromIsoFormatRaises(text) ==
    ~IsoShape(text) \/ ~IsoFieldsValid(IsoFields(text))

\* datetime.fromisoformat(text) when it does not raise
fromisoformat(text) == IsoFields(text)

\* the event_time of a record: record["eventTime"].replace("Z", "+00:00")
EventTimeText(record) == Replace(record.eventTime, "Z", "+00:00")

\* event_time = None
NoTime == [none |-> TRUE]

IsAware(dt) == dt.utcoffset # "naive"

\* the offset of an aware datetime, in minutes
OffsetMinutes(dt) ==
    IF Chr(dt.utcoffset, 1) = "-"
    THEN 0 - ToNat(SubSeq(dt.utcoffset, 2, Len(dt.utcoffset)))
    ELSE ToNat(dt.utcoffset)

\* the day number and the second of that day of a datetime (in UTC for an
\* aware datetime, in wall time for a naive one)
Instant(dt) ==
    LET Normal(days, secs) ==
            IF secs < 0 THEN <<days - 1, secs + 86400>>
            ELSE IF secs >= 86400 THEN <<days + 1, secs - 86400>>
            ELSE <<days, secs>>
    IN  Normal(365 * (dt.year - 1) + (dt.year - 1) \div 4 - (dt.year - 1) \div 100
                 + (dt.year - 1) \div 400 + DaysBeforeMonth(dt.year, dt.month) + dt.day,
               (dt.hour * 60 + dt.minute
                  - (IF IsAware(dt) THEN OffsetMinutes(dt) ELSE 0)) * 60 + dt.second)

\* a < b for two datetimes that can be compared
Earlier(a, b) ==
    \/ Instant(a)[1] < Instant(b)[1]
    \/ Instant(a)[1] = Instant(b)[1] /\ Instant(a)[2] < Instant(b)[2]

\* a < b raises TypeError: one datetime is naive, the other aware
CompareRaises(a, b) == IsAware(a) # IsAware(b)

\* datetime.isoformat()
isoformat(dt) ==
    (IF dt.year < 10 THEN "000" ELSE IF dt.year < 100 THEN "00"
       ELSE IF dt.year < 1000 THEN "0" ELSE "") \o ToString(dt.year)
      \o "-" \o Fmt02d(dt.month) \o "-" \o Fmt02d(dt.day)
      \o "T" \o Fmt02d(dt.hour) \o ":" \o Fmt02d(dt.minute) \o ":" \o Fmt02d(dt.second)
      \o (IF ~IsAware(dt) THEN ""
          ELSE (IF OffsetMinutes(dt) < 0 THEN "-" ELSE "+")
                 \o Fmt02d((IF OffsetMinutes(dt) < 0 THEN 0 - OffsetMinutes(dt)
                            ELSE OffsetMinutes(dt)) \div 60)
                 \o ":"
                 \o Fmt02d((IF OffsetMinutes(dt) < 0 THEN 0 - OffsetMinutes(dt)
                            ELSE OffsetMinutes(dt)) % 60))

(***************************************************************************)
(* unique_events_from_logs.py: values read from the log files              *)
(*                                                                         *)
(* An element of an events list, and every value the code tests with       *)
(* isinstance (CloudTrailEvent, requestParameters, responseElements and    *)
(* what they hold), is a JSON value tagged with its type.  A record (the   *)
(* v of a "dict" element) is a TLA+ record with the keys the dict holds:   *)
(* eventSource, eventName, eventTime, sourceIPAddress, userAgent and       *)
(* vpcEndpointId are str, userIdentity a record of str, resources a list   *)
(* of records of str.                                                      *)
(***************************************************************************)
JNull == [t |-> "null"]

\* bool(j)
Truthy(j) ==
    IF j.t = "null" THEN FALSE
    ELSE IF j.t = "num" THEN j.v # 0
    ELSE IF j.t = "str" THEN j.v # ""
    ELSE IF j.t = "list" THEN j.v # << >>
    ELSE DOMAIN j.v # {}

\* the characters the class [^"\s}] of the ARN pattern excludes
ArnStops == {"\"", "}", " ", "\t", "\n", "\r", "\f"}

\* the first position at or after i whose character is in stops, Len(s) + 1
\* if there is none
RECURSIVE SpanEnd(_, _, _)
SpanEnd(s, i, stops) ==
    IF i > Len(s) THEN i
    ELSE IF Chr(s, i) \in stops THEN i
    ELSE SpanEnd(s, i + 1, stops)

\* a match of arn:aws:[^:]+:[^:]*:[^:]*:[^"\s}]+ that starts at i: the position
\* after its last character, 0 if there is no match at i
ArnMatchEnd(s, i) ==
    IF SubSeq(s, i, i + 7) # "arn:aws:" THEN 0
    ELSE LET Last(j4) ==
                 LET Stop(e4) == IF e4 > j4 THEN e4 ELSE 0
                 IN  Stop(SpanEnd(s, j4, ArnStops))
             Third(j3) ==
                 LET Colon(e3) == IF e3 > Len(s) THEN 0 ELSE Last(e3 + 1)
                 IN  Colon(SpanEnd(s, j3, {":"}))
             Second(j2) ==
                 LET Colon(e2) == IF e2 > Len(s) THEN 0 ELSE Third(e2 + 1)
                 IN  Colon(SpanEnd(s, j2, {":"}))
             First(j1) ==
                 LET Colon(e1) ==
                         IF e1 > Len(s) \/ e1 = j1 THEN 0 ELSE Second(e1 + 1)
                 IN  Colon(SpanEnd(s, j1, {":"}))
         IN  First(i + 8)

\* re.findall(pattern, s) from position i on
RECURSIVE FindAllArns(_, _)
FindAllArns(s, i) ==
    LET From(start) ==
            IF start = 0 THEN << >>
            ELSE LET Matched(e) ==
                         IF e = 0 THEN FindAllArns(s, start + 1)
                         ELSE <<SubSeq(s, start, e - 1)>> \o FindAllArns(s, e)
                 IN  Matched(ArnMatchEnd(s, start))
    IN  From(FindFrom(s, "arn:aws:", i))

\* extract_arns_from_obj (lines 322-335): the ARNs it adds to resource_arns
RECURSIVE extract_arns_from_obj(_)
extract_arns_from_obj(obj) ==
    IF obj.t = "str" THEN Range(FindAllArns(obj.v, 1))
    ELSE IF obj.t = "dict"
    THEN UNION {extract_arns_from_obj(obj.v[key]) : key \in DOMAIN obj.v}
    ELSE IF obj.t = "list"
    THEN UNION {extract_arns_from_obj(obj.v[i]) : i \in DOMAIN obj.v}
    ELSE {}

\* extract_from_response (lines 343-354): the ARNs it adds to resource_arns
RECURSIVE extract_from_response(_)
extract_from_response(obj) ==
    IF obj.t # "dict" THEN {}
    ELSE UNION {
        IF EndsWith(Lower(key), "arn") /\ obj.v[key].t = "str"
             /\ StartsWith(obj.v[key].v, "arn:aws:")
        THEN {obj.v[key].v}
        ELSE IF obj.v[key].t = "dict" THEN extract_from_response(obj.v[key])
        ELSE IF obj.v[key].t = "list"
        THEN UNION {extract_from_response(obj.v[key].v[i]) : i \in DOMAIN obj.v[key].v}
        ELSE {} : key \in DOMAIN obj.v}

\* record.get(key) is truthy, for requestParameters and responseElements
HasTruthy(record, key) == key \in DOMAIN record /\ Truthy(record[key])

\* the resource type read from an ARN (lines 299-308), {} if it has none
ArnResourceType(arn) ==
    IF ~StartsWith(arn, "arn:aws:") THEN {}
    ELSE LET Typed(parts) ==
                 IF Len(parts) < 6 THEN {}
                 ELSE {parts[3] \o ":" \o Split(parts[6], "/")[1]}
         IN  Typed(Split(arn, ":"))

\* a variant of the loop over record["resources"] that also adds, for an ARN
\* with a "/", the ARN of what holds the resource (the part before the "/")
DeclaredArns_with_container(record) ==
    IF "resources" \notin DOMAIN record THEN {}
    ELSE UNION {{record.resources[i].ARN, Split(record.resources[i].ARN, "/")[1]} :
                   i \in {j \in DOMAIN record.resources :
                             "ARN" \in DOMAIN record.resources[j]}}

\* the loop over record["resources"] (lines 292-311)
DeclaredArns(record) ==
    IF "resources" \notin DOMAIN record THEN {}
    ELSE {record.resources[i].ARN :
             i \in {j \in DOMAIN record.resources : "ARN" \in DOMAIN record.resources[j]}}

DeclaredTypes(record) ==
    IF "resources" \notin DOMAIN record THEN {}
    ELSE UNION {(IF "ARN" \in DOMAIN record.resources[i]
                 THEN ArnResourceType(record.resources[i].ARN) ELSE {})
                  \cup (IF "type" \in DOMAIN record.resources[i]
                        THEN {record.resources[i].type} ELSE {})
                : i \in DOMAIN record.resources}

\* the conditions of lines 359-366
RequestConditions(record) ==
    (IF "sourceIPAddress" \in DOMAIN record
     THEN {"IpAddress=" \o record.sourceIPAddress} ELSE {})
      \cup (IF "userAgent" \in DOMAIN record
            THEN {"UserAgent=" \o record.userAgent} ELSE {})
      \cup (IF "vpcEndpointId" \in DOMAIN record /\ record.vpcEndpointId # ""
            THEN {"VpcEndpoint=" \o record.vpcEndpointId} ELSE {})

\* the time-based condition of lines 369-372, for an event time that parses
TimeConditions(record) ==
    IF "eventTime" \notin DOMAIN record THEN {}
    ELSE LET OfHour(hour) ==
                 {"TimeOfDay=" \o Fmt02d(hour) \o ":00-" \o Fmt02d(hour + 1) \o ":00"}
         IN  OfHour(fromisoformat(EventTimeText(record)).hour)

\* extract_comprehensive_resources raises ValueError (line 370)
ExtractResourcesRaises(record) ==
    "eventTime" \in DOMAIN record /\ FromIsoFormatRaises(EventTimeText(record))

\* extract_comprehensive_resources, when it does not raise
extract_comprehensive_resources(record) ==
    [resource_arns |->
        DeclaredArns(record)
          \cup (IF HasTruthy(record, "requestParameters")
                THEN extract_arns_from_obj(record.requestParameters) ELSE {})
          \cup (IF HasTruthy(record, "responseElements")
                THEN extract_from_response(record.responseElements) ELSE {}),
     resource_types |-> DeclaredTypes(record),
     conditions |-> RequestConditions(record) \cup TimeConditions(record)]

(***************************************************************************)
(* unique_events_from_logs.py: principal matching and user information     *)
(***************************************************************************)
\* s.split(sep)[-1]
LastPiece(s, sep) == Split(s, sep)[Len(Split(s, sep))]

\* user_identity.get(key, default) for a str-valued key
GetOr(user_identity, key, default) ==
    IF key \in DOMAIN user_identity THEN user_identity[key] ELSE default

\* a variant of compare_value that compares the letters as they are, whatever
\* case_sensitive says
compare_value_exact(field_value, criteria) ==
    IF field_value = "" THEN FALSE
    ELSE Contains(field_value, criteria.search_value)

\* compare_value (lines 184-189)
compare_value(field_value, criteria) ==
    IF field_value = "" THEN FALSE
    ELSE IF criteria.case_sensitive
    THEN Contains(field_value, criteria.search_value)
    ELSE Contains(Lower(field_value), Lower(criteria.search_value))

\* "key in user_identity and compare_func(user_identity[key])"
FieldMatches(user_identity, key, criteria) ==
    key \in DOMAIN user_identity /\ compare_value(user_identity[key], criteria)

check_username_match(user_identity, criteria) ==
    \/ FieldMatches(user_identity, "userName", criteria)
    \/ FieldMatches(user_identity, "name", criteria)
    \/ FieldMatches(user_identity, "arn", criteria)

check_access_key_match(user_identity, criteria) ==
    FieldMatches(user_identity, "accessKeyId", criteria)

check_role_name_match(user_identity, criteria) ==
    \/ /\ "arn" \in DOMAIN user_identity
       /\ Contains(user_identity.arn, "role/")
       /\ compare_value(Split(LastPiece(user_identity.arn, "role/"), "/")[1], criteria)
    \/ /\ GetOr(user_identity, "type", "<None>") = "AssumedRole"
       /\ compare_value(LastPiece(GetOr(user_identity, "arn", ""), "/"), criteria)

check_user_arn_match(user_identity, criteria) ==
    FieldMatches(user_identity, "arn", criteria)

matches_user_criteria(record, criteria) ==
    IF "userIdentity" \notin DOMAIN record THEN FALSE
    ELSE IF criteria.search_type = "username"
    THEN check_username_match(record.userIdentity, criteria)
    ELSE IF criteria.search_type = "access_key"
    THEN check_access_key_match(record.userIdentity, criteria)
    ELSE IF criteria.search_type = "role_name"
    THEN check_role_name_match(record.userIdentity, criteria)
    ELSE IF criteria.search_type = "user_arn"
    THEN check_user_arn_match(record.userIdentity, criteria)
    ELSE FALSE

ROLE_ARN_PARTS_MIN_LENGTH == 2

\* _extract_assumed_role_info
extract_assumed_role_info(user_identity) ==
    LET Named(parts) ==
            IF GetOr(user_identity, "arn", "") # ""
                 /\ Len(parts) >= ROLE_ARN_PARTS_MIN_LENGTH
            THEN <<parts[Len(parts) - 1], "role">>
            ELSE <<GetOr(user_identity, "principalId", "unknown"), "role">>
    IN  Named(Split(GetOr(user_identity, "arn", ""), "/"))

\* extract_user_info: (user_identifier, user_type)
extract_user_info(record) ==
    IF "userIdentity" \notin DOMAIN record THEN <<"Unknown", "unknown">>
    ELSE LET Info(user_identity, user_type) ==
                 IF user_type = "iamuser"
                 THEN <<GetOr(user_identity, "userName", "unknown"), "username">>
                 ELSE IF user_type = "assumedrole"
                 THEN extract_assumed_role_info(user_identity)
                 ELSE IF user_type = "root" THEN <<"root", "root">>
                 ELSE IF user_type \in {"samluser", "webidentityuser"}
                 THEN <<GetOr(user_identity, "userName",
                              GetOr(user_identity, "principalId", "unknown")), user_type>>
                 ELSE IF "accessKeyId" \in DOMAIN user_identity
                 THEN <<user_identity.accessKeyId, "access_key">>
                 ELSE <<GetOr(user_identity, "principalId", "unknown"), user_type>>
         IN  Info(record.userIdentity, Lower(GetOr(record.userIdentity, "type", "unknown")))

(***************************************************************************)
(* unique_events_from_logs.py: analyze_user_activity                       *)
(***************************************************************************)
\* the texts given to json.loads and what it returns for each: the parsed
\* value, or ok = FALSE for a json.JSONDecodeError
JsonTexts ==
    << [text |-> "{\"eventSource\":\"kms.amazonaws.com\",\"eventName\":\"Decrypt\",\"userIdentity\":{\"type\":\"IAMUser\",\"userName\":\"bob\"},\"resources\":[{\"ARN\":\"arn:aws:kms:us-east-1:123456789012:key/k1\"}]}",
        ok |-> TRUE,
        value |-> JDict([eventSource |-> "kms.amazonaws.com", eventName |-> "Decrypt",
                         userIdentity |-> [type |-> "IAMUser", userName |-> "bob"],
                         resources |-> <<[ARN |-> "arn:aws:kms:us-east-1:123456789012:key/k1"]>>])],
       [text |-> "{\"eventSource\":\"kms.amazonaws.com\",", ok |-> FALSE, value |-> JNull],
       [text |-> "[\"bob\"]", ok |-> TRUE, value |-> JList(<<JStr("bob")>>)] >>

\* json.loads(text)
json_loads(text) ==
    JsonTexts[CHOOSE i \in DOMAIN JsonTexts : JsonTexts[i].text = text]

\* _parse_cloudtrail_event raises AttributeError: the element has no get()
ParseRaises(event) == event.t # "dict"

\* record = event.get("CloudTrailEvent", event) (line 380)
EventOrEnvelope(event) ==
    IF "CloudTrailEvent" \in DOMAIN event.v THEN event.v.CloudTrailEvent ELSE event

\* _parse_cloudtrail_event, for an element that is a dict: the value it tests
\* with isinstance(record, dict), JNull when json.loads failed
ParsedValue(event) ==
    LET Loaded(record) ==
            IF record.t = "str"
            THEN (IF json_loads(record.v).ok THEN json_loads(record.v).value ELSE JNull)
            ELSE record
    IN  Loaded(EventOrEnvelope(event))

\* _parse_cloudtrail_event returns None
ParseReturnsNone(event) == ParsedValue(event).t # "dict"

\* _parse_cloudtrail_event's record otherwise
parse_cloudtrail_event(event) == ParsedValue(event).v

\* _extract_activity_data raises (the ValueError of line 370 passes through
\* line 452)
ExtractActivityRaises(record) == ExtractResourcesRaises(record)

\* _extract_activity_data, when it does not raise
extract_activity_data(record) ==
    LET Data(service, extracted) ==
            [service |-> service,
             event_name |-> record.eventName,
             event_source |-> record.eventSource,
             action |-> service \o ":" \o record.eventName,
             resource_arns |-> extracted.resource_arns,
             resource_types |-> extracted.resource_types,
             conditions |-> extracted.conditions,
             event_time |-> IF "eventTime" \in DOMAIN record
                                 /\ ~FromIsoFormatRaises(EventTimeText(record))
                            THEN fromisoformat(EventTimeText(record)) ELSE NoTime,
             source_ip |-> GetOr(record, "sourceIPAddress", ""),
             user_agent |-> GetOr(record, "userAgent", ""),
             request_parameters |-> IF "requestParameters" \in DOMAIN record
                                    THEN record.requestParameters ELSE JDict(EmptyDict)]
    IN  Data(Replace(record.eventSource, ".amazonaws.com", ""),
             extract_comprehensive_resources(record))

\* _create_new_activity
create_new_activity(user_data, service_data, activity_data) ==
    [user_identifier |-> user_data[1],
     user_type |-> user_data[2],
     service |-> service_data[1],
     event_name |-> service_data[2],
     event_source |-> service_data[3],
     resources |-> activity_data.resource_arns,
     resource_types |-> activity_data.resource_types,
     actions |-> {activity_data.action},
     request_parameters |-> activity_data.request_parameters,
     conditions |-> activity_data.conditions,
     source_ips |-> IF activity_data.source_ip # "" THEN {activity_data.source_ip} ELSE {},
     user_agents |-> IF activity_data.user_agent # "" THEN {activity_data.user_agent} ELSE {},
     count |-> 1,
     first_seen |-> activity_data.event_time,
     last_seen |-> activity_data.event_time]

\* _update_existing_activity raises TypeError: a naive and an aware datetime
\* are compared (lines 413, 415)
UpdateRaises(activity, new_activity_data) ==
    /\ new_activity_data.event_time # NoTime
    /\ \/ activity.first_seen # NoTime
          /\ CompareRaises(new_activity_data.event_time, activity.first_seen)
       \/ activity.last_seen # NoTime
          /\ CompareRaises(new_activity_data.event_time, activity.last_seen)

\* a variant of _update_existing_activity in which the newest event's time
\* always becomes first_seen
update_existing_activity_newest_first(activity, new_activity_data) ==
    [activity EXCEPT
        !.resources = @ \cup new_activity_data.resource_arns,
        !.resource_types = @ \cup new_activity_data.resource_types,
        !.actions = @ \cup {new_activity_data.action},
        !.conditions = @ \cup new_activity_data.conditions,
        !.source_ips = IF new_activity_data.source_ip # ""
                       THEN @ \cup {new_activity_data.source_ip} ELSE @,
        !.user_agents = IF new_activity_data.user_agent # ""
                        THEN @ \cup {new_activity_data.user_agent} ELSE @,
        !.count = @ + 1,
        !.first_seen = IF new_activity_data.event_time # NoTime
                       THEN new_activity_data.event_time ELSE @,
        !.last_seen = IF new_activity_data.event_time # NoTime
                           /\ (@ = NoTime \/ Earlier(@, new_activity_data.event_time))
                      THEN new_activity_data.event_time ELSE @]

\* _update_existing_activity, when it does not raise
update_existing_activity(activity, new_activity_data) ==
    [activity EXCEPT
        !.resources = @ \cup new_activity_data.resource_arns,
        !.resource_types = @ \cup new_activity_data.resource_types,
        !.actions = @ \cup {new_activity_data.action},
        !.conditions = @ \cup new_activity_data.conditions,
        !.source_ips = IF new_activity_data.source_ip # ""
                       THEN @ \cup {new_activity_data.source_ip} ELSE @,
        !.user_agents = IF new_activity_data.user_agent # ""
                        THEN @ \cup {new_activity_data.user_agent} ELSE @,
        !.count = @ + 1,
        !.first_seen = IF new_activity_data.event_time # NoTime
                            /\ (@ = NoTime \/ Earlier(new_activity_data.event_time, @))
                       THEN new_activity_data.event_time ELSE @,
        !.last_seen = IF new_activity_data.event_time # NoTime
                           /\ (@ = NoTime \/ Earlier(@, new_activity_data.event_time))
                      THEN new_activity_data.event_time ELSE @]

\* a variant of the lookup of api_call_key that never finds the key
KeyIndex_never_found(activities, api_call_key) == 0

\* the position of api_call_key in user_activities, 0 if it is not a key
KeyIndex(activities, api_call_key) ==
    IF \E i \in 1..Len(activities) : activities[i].key = api_call_key
    THEN CHOOSE i \in 1..Len(activities) : activities[i].key = api_call_key
    ELSE 0

\* lines 514-527 for a matching record with eventSource and eventName
RecordActivity(run, record) ==
    IF ExtractActivityRaises(record) THEN [run EXCEPT !.raised = "ValueError"]
    ELSE LET Store(activity_data) ==
                 LET At(i) ==
                         IF i = 0
                         THEN [run EXCEPT !.user_activities =
                                 Append(@, [key |-> activity_data.action,
                                            activity |-> create_new_activity(
                                                extract_user_info(record),
                                                <<activity_data.service,
                                                  activity_data.event_name,
                                                  activity_data.event_source>>,
                                                activity_data)])]
                         ELSE IF UpdateRaises(run.user_activities[i].activity, activity_data)
                         THEN [run EXCEPT !.raised = "TypeError"]
                         ELSE [run EXCEPT !.user_activities[i].activity =
                                 update_existing_activity(@, activity_data)]
                 IN  At(KeyIndex(run.user_activities, activity_data.action))
         IN  Store(extract_activity_data(record))

\* a variant of the iteration that records every record that parses, whether
\* it matches the criteria or not
ProcessEvent_recording_all(run, event, criteria) ==
    LET Counted(counted) ==
            IF ParseRaises(event) THEN [counted EXCEPT !.raised = "AttributeError"]
            ELSE IF ParseReturnsNone(event) THEN counted
            ELSE LET Matched(matched, record) ==
                         IF "eventSource" \notin DOMAIN record
                              \/ "eventName" \notin DOMAIN record
                         THEN matched
                         ELSE RecordActivity(matched, record)
                 IN  Matched([counted EXCEPT !.matched_events = @ + 1],
                             parse_cloudtrail_event(event))
    IN  Counted([run EXCEPT !.total_events = @ + 1])

\* a variant of the iteration that counts a matching record only when it has
\* eventSource and eventName
ProcessEvent_counting_recorded(run, event, criteria) ==
    LET Counted(counted) ==
            IF ParseRaises(event) THEN [counted EXCEPT !.raised = "AttributeError"]
            ELSE IF ParseReturnsNone(event) THEN counted
            ELSE IF ~matches_user_criteria(parse_cloudtrail_event(event), criteria)
            THEN counted
            ELSE LET Matched(record) ==
                         IF "eventSource" \notin DOMAIN record
                              \/ "eventName" \notin DOMAIN record
                         THEN counted
                         ELSE RecordActivity([counted EXCEPT !.matched_events = @ + 1],
                                             record)
                 IN  Matched(parse_cloudtrail_event(event))
    IN  Counted([run EXCEPT !.total_events = @ + 1])

\* one iteration of "for event in events" (lines 497-527) on the run's
\* user_activities, matched_events and total_events; raised names the
\* exception that left the loop, "" if none did
ProcessEvent(run, event, criteria) ==
    LET Counted(counted) ==
            IF ParseRaises(event) THEN [counted EXCEPT !.raised = "AttributeError"]
            ELSE IF ParseReturnsNone(event) THEN counted
            ELSE IF ~matches_user_criteria(parse_cloudtrail_event(event), criteria)
            THEN counted
            ELSE LET Matched(matched, record) ==
                         IF "eventSource" \notin DOMAIN record
                              \/ "eventName" \notin DOMAIN record
                         THEN matched
                         ELSE RecordActivity(matched, record)
                 IN  Matched([counted EXCEPT !.matched_events = @ + 1],
                             parse_cloudtrail_event(event))
    IN  Counted([run EXCEPT !.total_events = @ + 1])

NewRun == [user_activities |-> << >>, matched_events |-> 0, total_events |-> 0,
           raised |-> ""]

\* the loop of analyze_user_activity from event k on
RECURSIVE AnalyzeFrom(_, _, _, _)
AnalyzeFrom(run, events, k, criteria) ==
    IF k > Len(events) \/ run.raised # "" THEN run
    ELSE AnalyzeFrom(ProcessEvent(run, events[k], criteria), events, k + 1, criteria)

\* analyze_user_activity: user_activities is returned when raised = ""
analyze_user_activity(events, criteria) == AnalyzeFrom(NewRun, events, 1, criteria)

(***************************************************************************)
(* Events given to the analyzer                                            *)
(***************************************************************************)
Bob == [type |-> "IAMUser", userName |-> "bob", principalId |-> "AIDABOB",
        arn |-> "arn:aws:iam::123456789012:user/bob"]

BobAsDeploy == [type |-> "AssumedRole", principalId |-> "AROADEPLOY:bob",
                arn |-> "arn:aws:sts::123456789012:assumed-role/Deploy/bob"]

Alice == [type |-> "IAMUser", userName |-> "alice",
          arn |-> "arn:aws:iam::123456789012:user/alice"]

EventCatalog ==
    << \* Scenario A: bob reads an object
       JDict([eventSource |-> "s3.amazonaws.com", eventName |-> "GetObject",
              userIdentity |-> Bob, eventTime |-> "2024-01-15T10:30:00Z",
              sourceIPAddress |-> "10.0.0.1", userAgent |-> "aws-cli",
              resources |-> <<[ARN |-> "arn:aws:s3:::my-bucket/key1",
                               type |-> "AWS::S3::Object"]>>]),
       \* the same operation later, through an assumed role, on another object
       JDict([eventSource |-> "s3.amazonaws.com", eventName |-> "GetObject",
              userIdentity |-> BobAsDeploy, eventTime |-> "2024-01-15T23:05:00Z",
              sourceIPAddress |-> "10.0.0.2",
              requestParameters |-> JDict([bucketName |-> JStr("my-bucket"),
                                           key |-> JStr("key2")]),
              resources |-> <<[ARN |-> "arn:aws:s3:::my-bucket/key2"]>>]),
       \* Scenario B: a wildcard operation with a declared resource
       JDict([eventSource |-> "iam.amazonaws.com", eventName |-> "ListUsers",
              userIdentity |-> Bob, eventTime |-> "2024-01-15T10:31:00Z",
              resources |-> <<[ARN |-> "arn:aws:iam::123456789012:user/bob"]>>]),
       \* another principal
       JDict([eventSource |-> "s3.amazonaws.com", eventName |-> "PutObject",
              userIdentity |-> Alice, eventTime |-> "2024-01-15T10:32:00Z",
              resources |-> <<[ARN |-> "arn:aws:s3:::my-bucket/key1"]>>]),
       \* no eventName
       JDict([eventSource |-> "s3.amazonaws.com", userIdentity |-> Bob,
              eventTime |-> "2024-01-15T10:33:00Z"]),
       \* an event time that is not ISO-8601
       JDict([eventSource |-> "ec2.amazonaws.com", eventName |-> "RunInstances",
              userIdentity |-> Bob, eventTime |-> "not-a-time"]),
       \* an element that is not an object
       JStr("garbage"),
       \* lookup-style events: CloudTrailEvent is a JSON text
       JDict([EventId |-> JStr("e-1"), CloudTrailEvent |-> JStr(JsonTexts[1].text)]),
       JDict([EventId |-> JStr("e-2"), CloudTrailEvent |-> JStr(JsonTexts[2].text)]),
       JDict([EventId |-> JStr("e-3"), CloudTrailEvent |-> JStr(JsonTexts[3].text)]),
       \* no declared resource, ARNs in requestParameters and responseElements
       JDict([eventSource |-> "s3.amazonaws.com", eventName |-> "PutObject",
              userIdentity |-> Bob,
              requestParameters |->
                  JDict([bucketName |-> JStr("my-bucket"),
                         encryption |-> JList(<<JStr(
                             "key=arn:aws:kms:us-east-1:123456789012:key/k1 ")>>)]),
              responseElements |->
                  JDict([keyArn |-> JStr("arn:aws:kms:us-east-1:123456789012:key/k2"),
                         versionId |-> JNull])]),
       \* no identity block
       JDict([eventSource |-> "s3.amazonaws.com", eventName |-> "GetObject"]),
       \* a declared resource, and an ARN in requestParameters
       JDict([eventSource |-> "s3.amazonaws.com", eventName |-> "PutObject",
              userIdentity |-> Bob, eventTime |-> "2024-01-15T10:34:00Z",
              requestParameters |->
                  JDict([bucketName |-> JStr("my-bucket"),
                         kmsKeyId |-> JStr("arn:aws:kms:us-east-1:123456789012:key/k1")]),
              resources |-> <<[ARN |-> "arn:aws:s3:::my-bucket/key1"]>>]) >>

CriteriaCatalog ==
    {[search_type |-> "username", search_value |-> "bob", case_sensitive |-> FALSE],
     [search_type |-> "role_name", search_value |-> "Deploy", case_sensitive |-> FALSE],
     \* values that differ from the identities' in letter case only
     [search_type |-> "username", search_value |-> "BOB", case_sensitive |-> FALSE],
     [search_type |-> "username", search_value |-> "BOB", case_sensitive |-> TRUE],
     [search_type |-> "user_arn", search_value |-> "USER/Bob", case_sensitive |-> FALSE]}

\* the lists of at most MaxEvents catalogued events
EventLists ==
    UNION {[1..n -> Range(EventCatalog)] : n \in 0..MaxEvents}

(***************************************************************************)
(* unique_events_from_logs.py: log files                                   *)
(*                                                                         *)
(* A file is [suffix, fault, data]: fault names what is wrong with the     *)
(* file on disk ("" if nothing), data is what json.load returns for a file *)
(* without fault.  A "Records" or "Events" entry of the catalogued files   *)
(* is a list.                                                              *)
(***************************************************************************)
\* the exception classes a run can meet, each with its base classes
ExceptionBases ==
    [FileNotFoundError |-> {"FileNotFoundError", "OSError"},
     PermissionError |-> {"PermissionError", "OSError"},
     BadGzipFile |-> {"BadGzipFile", "OSError"},
     EOFError |-> {"EOFError"},
     JSONDecodeError |-> {"JSONDecodeError", "ValueError"},
     UnicodeDecodeError |-> {"UnicodeDecodeError", "UnicodeError", "ValueError"},
     ValueError |-> {"ValueError"},
     TypeError |-> {"TypeError"},
     AttributeError |-> {"AttributeError"}]

\* the except clauses of process_cloudtrail_file (lines 576-584)
ProcessFileCatches(exc) ==
    ExceptionBases[exc]
        \cap {"FileNotFoundError", "JSONDecodeError", "OSError", "PermissionError"} # {}

\* what gzip.open / file_path.open and json.load raise for the file (lines
\* 552-557), "" when json.load returns
LoadRaises(file) ==
    IF file.fault = "missing" THEN "FileNotFoundError"
    ELSE IF file.fault = "permission_denied" THEN "PermissionError"
    ELSE IF file.suffix = ".gz" /\ file.fault = "not_gzip" THEN "BadGzipFile"
    ELSE IF file.suffix = ".gz" /\ file.fault = "truncated_gzip" THEN "EOFError"
    ELSE IF file.fault = "invalid_encoding" THEN "UnicodeDecodeError"
    ELSE IF file.fault = "invalid_json" THEN "JSONDecodeError"
    ELSE ""

\* '"Records" in data' raises TypeError: data is not a container (line 562)
EnvelopeRaises(data) == data.t = "null"

\* lines 562-570: the events of the envelope; none |-> TRUE for "Unknown JSON
\* format"
EnvelopeEvents(data) ==
    IF data.t = "dict" /\ "Records" \in DOMAIN data.v
    THEN [none |-> FALSE, events |-> data.v.Records.v]
    ELSE IF data.t = "dict" /\ "Events" \in DOMAIN data.v
    THEN [none |-> FALSE, events |-> data.v.Events.v]
    ELSE [none |-> TRUE, events |-> << >>]

\* process_cloudtrail_file: the activities returned, or the exception that
\* none of its except clauses catches
process_cloudtrail_file(file, criteria) ==
    LET Outcome(activities, exc) ==
            IF exc = "" THEN [activities |-> activities, raised |-> ""]
            ELSE IF ProcessFileCatches(exc) THEN [activities |-> << >>, raised |-> ""]
            ELSE [activities |-> << >>, raised |-> exc]
        OfRun(run) == Outcome(run.user_activities, run.raised)
        OfEnvelope(envelope) ==
            IF envelope.none THEN Outcome(<< >>, "")
            ELSE OfRun(analyze_user_activity(envelope.events, criteria))
    IN  IF LoadRaises(file) # "" THEN Outcome(<< >>, LoadRaises(file))
        ELSE IF EnvelopeRaises(file.data) THEN Outcome(<< >>, "TypeError")
        ELSE OfEnvelope(EnvelopeEvents(file.data))

\* the merge of _process_all_log_files raises TypeError: a naive and an aware
\* datetime are compared (lines 834, 836)
MergeRaises(existing_activity, activity) ==
    \/ /\ activity.first_seen # NoTime
       /\ existing_activity.first_seen # NoTime
       /\ CompareRaises(activity.first_seen, existing_activity.first_seen)
    \/ /\ activity.last_seen # NoTime
       /\ existing_activity.last_seen # NoTime
       /\ CompareRaises(activity.last_seen, existing_activity.last_seen)

\* a variant of the merge of one activity that counts the merge itself as one
\* more occurrence
merge_activity_counting_merges(existing_activity, activity) ==
    [existing_activity EXCEPT
        !.resources = @ \cup activity.resources,
        !.resource_types = @ \cup activity.resource_types,
        !.actions = @ \cup activity.actions,
        !.conditions = @ \cup activity.conditions,
        !.source_ips = @ \cup activity.source_ips,
        !.user_agents = @ \cup activity.user_agents,
        !.count = @ + activity.count + 1,
        !.first_seen = IF activity.first_seen # NoTime
                            /\ (@ = NoTime \/ Earlier(activity.first_seen, @))
                       THEN activity.first_seen ELSE @,
        !.last_seen = IF activity.last_seen # NoTime
                           /\ (@ = NoTime \/ Earlier(@, activity.last_seen))
                      THEN activity.last_seen ELSE @]

\* the merge of one activity into the existing one (lines 824-837), when it
\* does not raise
merge_activity(existing_activity, activity) ==
    [existing_activity EXCEPT
        !.resources = @ \cup activity.resources,
        !.resource_types = @ \cup activity.resource_types,
        !.actions = @ \cup activity.actions,
        !.conditions = @ \cup activity.conditions,
        !.source_ips = @ \cup activity.source_ips,
        !.user_agents = @ \cup activity.user_agents,
        !.count = @ + activity.count,
        !.first_seen = IF activity.first_seen # NoTime
                            /\ (@ = NoTime \/ Earlier(activity.first_seen, @))
                       THEN activity.first_seen ELSE @,
        !.last_seen = IF activity.last_seen # NoTime
                           /\ (@ = NoTime \/ Earlier(@, activity.last_seen))
                      THEN activity.last_seen ELSE @]

\* "for api_call, activity in file_activities.items()" from entry k on (lines
\* 822-839): merged.all_activities, and merged.raised when the merge raises
RECURSIVE MergeFrom(_, _, _)
MergeFrom(merged, file_activities, k) ==
    IF k > Len(file_activities) \/ merged.raised # "" THEN merged
    ELSE LET At(i) ==
                 IF i = 0
                 THEN [merged EXCEPT !.all_activities = Append(@, file_activities[k])]
                 ELSE IF MergeRaises(merged.all_activities[i].activity,
                                     file_activities[k].activity)
                 THEN [merged EXCEPT !.raised = "TypeError"]
                 ELSE [merged EXCEPT !.all_activities[i].activity =
                          merge_activity(@, file_activities[k].activity)]
         IN  MergeFrom(At(KeyIndex(merged.all_activities, file_activities[k].key)),
                       file_activities, k + 1)

\* the merge of a file's activities into all_activities
MergeFileActivities(all_activities, file_activities) ==
    MergeFrom([all_activities |-> all_activities, raised |-> ""], file_activities, 1)

\* {"Records": [...]} with catalogued events
RecordsOf(indices) ==
    JDict([Records |-> JList([i \in 1..Len(indices) |-> EventCatalog[indices[i]]])])

\* {"Events": [...]} with catalogued events
EventsOf(indices) ==
    JDict([Events |-> JList([i \in 1..Len(indices) |-> EventCatalog[indices[i]]])])

FileCatalog ==
    << \* readable files; the first two share an operation
       [suffix |-> ".json", fault |-> "", data |-> RecordsOf(<<1, 2>>)],
       [suffix |-> ".gz", fault |-> "", data |-> RecordsOf(<<1, 3>>)],
       [suffix |-> ".json", fault |-> "", data |-> EventsOf(<<8>>)],
       \* files that cannot be read or decoded
       [suffix |-> ".json", fault |-> "missing", data |-> JNull],
       [suffix |-> ".json", fault |-> "permission_denied", data |-> JNull],
       [suffix |-> ".gz", fault |-> "not_gzip", data |-> JNull],
       [suffix |-> ".gz", fault |-> "truncated_gzip", data |-> JNull],
       [suffix |-> ".json", fault |-> "invalid_json", data |-> JNull],
       [suffix |-> ".json", fault |-> "invalid_encoding", data |-> JNull],
       \* envelopes the analyzer does not know
       [suffix |-> ".json", fault |-> "", data |-> JDict([foo |-> JStr("bar")])],
       [suffix |-> ".json", fault |-> "", data |-> JList(<<JStr("bar")>>)],
       [suffix |-> ".json", fault |-> "", data |-> JNull] >>

\* the lists of at most MaxFiles catalogued files
FileLists ==
    UNION {[1..n -> Range(FileCatalog)] : n \in 0..MaxFiles}

(***************************************************************************)
(* State                                                                   *)
(***************************************************************************)
VARIABLES
    pc,              \* position of the run
    criteria,        \* the analyzer's UserSearchCriteria
    events,          \* the events list given to analyze_user_activity
    next_event,      \* position of the next event of the loop
    user_activities, \* analyze_user_activity's user_activities, in key order
    matched_events,  \* its matched_events counter
    total_events,    \* its total_events counter
    raised,          \* the exception that left the analyzer uncaught, "" if none
    log_files,       \* the log files given to _process_all_log_files
    next_file,       \* position of the next file of its loop
    all_activities,  \* its all_activities, in key order
    processed_files, \* its processed_files counter
    analysis_data,   \* the analysis file the policy generator loaded
    statements,      \* generate_policy_statements' result
    buckets,         \* service_statements / service_resources when its first loop ends
    gen_warnings,    \* the pairs map_event_to_actions warned about
    optimized,       \* optimize_policy_size's result and reports
    policy,          \* create_iam_policy's result
    choice,          \* the orchestrator's menu choice
    existing,        \* the module files that exist in the current directory
    cost_estimate,   \* estimate_download_cost's result
    confirmations,   \* the answers given to the orchestrator's y/n prompts
    launched,        \* the modules subprocess.run started, with their outcome
    step_results,    \* what the steps of run_complete_workflow returned
    workflow_complete, \* "WORKFLOW COMPLETE!" is printed
    interrupted,     \* the exception that left the orchestrator's function
    prefixes,        \* the prefixes given to list_log_files
    futures,         \* per prefix: its worker's state and result
    completed,       \* the prefixes in the order as_completed yields them
    next_completed,  \* position of the next future the main thread takes
    all_files,       \* list_log_files' all_files
    list_requests,   \* the downloader's list_requests counter
    list_raised      \* the exception that left list_log_files, "" if none

analyzer_vars ==
    <<criteria, events, next_event, user_activities, matched_events, total_events, raised>>

policy_vars == <<analysis_data, statements, buckets, gen_warnings, optimized, policy>>

files_vars == <<log_files, next_file, all_activities, processed_files>>

main_vars ==
    <<choice, existing, cost_estimate, confirmations, launched, step_results,
      workflow_complete, interrupted>>

listing_vars ==
    <<prefixes, futures, completed, next_completed, all_files, list_requests,
      list_raised>>

vars == <<pc, analyzer_vars, files_vars, policy_vars, main_vars, listing_vars>>

\* estimate_download_cost returned None, or was not called
None == [none |-> TRUE]

\* the orchestrator's variables in a run of one of the modules
NoOrchestrator ==
    /\ choice = ""
    /\ existing = {}
    /\ cost_estimate = None
    /\ confirmations = << >>
    /\ launched = << >>
    /\ step_results = << >>
    /\ workflow_complete = FALSE
    /\ interrupted = ""

\* the variables of list_log_files in a run that lists nothing
NoListing ==
    /\ prefixes = << >>
    /\ futures = << >>
    /\ completed = << >>
    /\ next_completed = 1
    /\ all_files = << >>
    /\ list_requests = 0
    /\ list_raised = ""

NoCriteria == [search_type |-> "", search_value |-> "", case_sensitive |-> FALSE]

\* the analyzer's variables in a run that starts from an analysis file
NoAnalyzer ==
    /\ criteria = NoCriteria
    /\ events = << >>
    /\ next_event = 1
    /\ user_activities = << >>
    /\ matched_events = 0
    /\ total_events = 0
    /\ raised = ""

\* the variables of _process_all_log_files in a run that is given events
NoFiles ==
    /\ log_files = << >>
    /\ next_file = 1
    /\ all_activities = << >>
    /\ processed_files = 0

NoOptimized ==
    [statements |-> << >>, kept |-> << >>, skip_reports |-> << >>, skipped |-> 0,
     total_size |-> 0]

NoPolicy == JDict(EmptyDict)

(***************************************************************************)
(* The policy generator's run (generate_policy.py main, lines 941-957)     *)
(***************************************************************************)
PolicyInit ==
    /\ pc = "loaded"
    /\ NoAnalyzer
    /\ NoFiles
    /\ NoOrchestrator
    /\ NoListing
    /\ analysis_data \in {[activities |-> ActivitiesOf(input)] : input \in AnalysisInputs}
    /\ statements = << >>
    /\ buckets = << >>
    /\ gen_warnings = {}
    /\ optimized = NoOptimized
    /\ policy = NoPolicy

\* _validate_analysis_data: sys.exit(1) when the file holds no activities
ValidateAnalysisData ==
    /\ pc = "loaded"
    /\ pc' = IF Len(analysis_data.activities) = 0 THEN "exit_1" ELSE "validated"
    /\ UNCHANGED <<main_vars, listing_vars, files_vars, analyzer_vars, analysis_data, statements, buckets, gen_warnings, optimized, policy>>

\* _generate_and_optimize_policy, lines 867-875: generate_policy_statements,
\* and sys.exit(1) when it made no statement
GenerateStatements ==
    /\ pc = "validated"
    /\ \E seed \in HashSeeds :
         \E g \in {generate_policy_statements(analysis_data, seed)} :
             /\ statements' = g.statements
             /\ buckets' = g.buckets
             /\ gen_warnings' = g.warnings
             /\ pc' = IF Len(g.statements) = 0 THEN "exit_1" ELSE "generated"
    /\ UNCHANGED <<main_vars, listing_vars, files_vars, analyzer_vars, analysis_data, optimized, policy>>

\* _generate_and_optimize_policy, line 878
OptimizePolicySize ==
    /\ pc = "generated"
    /\ optimized' = optimize_policy_size(statements)
    /\ pc' = "optimized"
    /\ UNCHANGED <<main_vars, listing_vars, files_vars, analyzer_vars, analysis_data, statements, buckets, gen_warnings, policy>>

\* _generate_and_optimize_policy, line 882
CreateIamPolicy ==
    /\ pc = "optimized"
    /\ policy' = create_iam_policy(optimized.statements)
    /\ pc' = "created"
    /\ UNCHANGED <<main_vars, listing_vars, files_vars, analyzer_vars, analysis_data, statements, buckets, gen_warnings, optimized>>

PolicyNext ==
    \/ ValidateAnalysisData
    \/ GenerateStatements
    \/ OptimizePolicySize
    \/ CreateIamPolicy

PolicySpec == PolicyInit /\ [][PolicyNext]_vars

(***************************************************************************)
(* The analyzer's run followed by the policy generator's                   *)
(* (unique_events_from_logs.py main, then generate_policy.py main)         *)
(***************************************************************************)
NoPolicyRun ==
    /\ analysis_data = [activities |-> << >>]
    /\ statements = << >>
    /\ buckets = << >>
    /\ gen_warnings = {}
    /\ optimized = NoOptimized
    /\ policy = NoPolicy

Init ==
    /\ pc = "analyzing"
    /\ criteria \in CriteriaCatalog
    /\ events \in EventLists
    /\ next_event = 1
    /\ user_activities = << >>
    /\ matched_events = 0
    /\ total_events = 0
    /\ raised = ""
    /\ NoFiles
    /\ NoOrchestrator
    /\ NoListing
    /\ NoPolicyRun

\* one iteration of the loop of analyze_user_activity; an exception leaves
\* the function and, caught nowhere, the program
AnalyzeEvent ==
    /\ pc = "analyzing"
    /\ next_event <= Len(events)
    /\ \E run \in {ProcessEvent([user_activities |-> user_activities,
                                 matched_events |-> matched_events,
                                 total_events |-> total_events,
                                 raised |-> raised],
                                events[next_event], criteria)} :
          /\ user_activities' = run.user_activities
          /\ matched_events' = run.matched_events
          /\ total_events' = run.total_events
          /\ raised' = run.raised
          /\ pc' = IF run.raised # "" THEN "raised" ELSE "analyzing"
    /\ next_event' = next_event + 1
    /\ UNCHANGED <<main_vars, listing_vars, files_vars, criteria, events, policy_vars>>

\* analyze_user_activity returns dict(user_activities) (lines 529-534)
ReturnActivities ==
    /\ pc = "analyzing"
    /\ next_event > Len(events)
    /\ pc' = "analyzed"
    /\ UNCHANGED <<main_vars, listing_vars, files_vars, analyzer_vars, policy_vars>>

\* activity.first_seen.isoformat() if activity.first_seen else None
SavedTime(dt) == IF dt = NoTime THEN JNull ELSE JStr(isoformat(dt))

\* save_user_activity_analysis: the entry of one activity (lines 728-743)
SavedActivity(activity) ==
    [user_identifier |-> activity.user_identifier,
     user_type |-> activity.user_type,
     service |-> activity.service,
     event_name |-> activity.event_name,
     event_source |-> activity.event_source,
     count |-> activity.count,
     first_seen |-> SavedTime(activity.first_seen),
     last_seen |-> SavedTime(activity.last_seen),
     resources |-> Sorted(activity.resources),
     resource_types |-> Sorted(activity.resource_types),
     actions |-> Sorted(activity.actions),
     conditions |-> Sorted(activity.conditions),
     source_ips |-> Sorted(activity.source_ips),
     user_agents |-> Sorted(activity.user_agents)]

\* save_user_activity_analysis: the file's activities, search_criteria and
\* summary (analysis_timestamp is not read by the policy generator)
save_user_activity_analysis(activities, search_criteria) ==
    [activities |-> [i \in 1..Len(activities) |->
                        [key |-> activities[i].key,
                         info |-> SavedActivity(activities[i].activity)]],
     search_criteria |-> search_criteria,
     summary |-> [user_identifier |-> IF activities # << >>
                                      THEN activities[1].activity.user_identifier
                                      ELSE "Unknown",
                  user_type |-> IF activities # << >>
                                THEN activities[1].activity.user_type ELSE "Unknown",
                  unique_api_calls |-> Len(activities),
                  total_api_calls |-> SumSeq([i \in 1..Len(activities) |->
                                                 activities[i].activity.count]),
                  unique_services |-> Cardinality({activities[i].activity.service :
                                                      i \in 1..Len(activities)}),
                  unique_resources |-> Cardinality(UNION {activities[i].activity.resources :
                                                             i \in 1..Len(activities)})]]

\* main, lines 920-923, with "Save analysis to file?" answered yes; the policy
\* generator then loads the file
SaveAnalysis ==
    /\ pc = "analyzed"
    /\ user_activities # << >>
    /\ analysis_data' = save_user_activity_analysis(user_activities, criteria)
    /\ pc' = "loaded"
    /\ UNCHANGED <<main_vars, listing_vars, files_vars, analyzer_vars, statements, buckets, gen_warnings, optimized, policy>>

\* main, lines 924-925: no activities found
NoActivitiesFound ==
    /\ pc = "analyzed"
    /\ user_activities = << >>
    /\ pc' = "no_activities"
    /\ UNCHANGED <<main_vars, listing_vars, files_vars, analyzer_vars, policy_vars>>

Next ==
    \/ AnalyzeEvent
    \/ ReturnActivities
    \/ SaveAnalysis
    \/ NoActivitiesFound
    \/ ValidateAnalysisData
    \/ GenerateStatements
    \/ OptimizePolicySize
    \/ CreateIamPolicy

Spec == Init /\ [][Next]_vars

(***************************************************************************)
(* The analyzer's run over log files (unique_events_from_logs.py main,     *)
(* line 915: _process_all_log_files)                                       *)
(***************************************************************************)
FilesInit ==
    /\ pc = "processing_files"
    /\ criteria \in CriteriaCatalog
    /\ log_files \in FileLists
    /\ next_file = 1
    /\ all_activities = << >>
    /\ processed_files = 0
    /\ NoOrchestrator
    /\ NoListing
    /\ events = << >>
    /\ next_event = 1
    /\ user_activities = << >>
    /\ matched_events = 0
    /\ total_events = 0
    /\ raised = ""
    /\ NoPolicyRun

\* one iteration of "for file_path in log_files" (lines 818-839); an exception
\* that process_cloudtrail_file does not catch, or that the merge raises,
\* leaves _process_all_log_files and, caught nowhere, the program
ProcessLogFile ==
    /\ pc = "processing_files"
    /\ next_file <= Len(log_files)
    /\ \E result \in {process_cloudtrail_file(log_files[next_file], criteria)} :
          IF result.raised # ""
          THEN /\ raised' = result.raised
               /\ pc' = "raised"
               /\ UNCHANGED <<all_activities, processed_files>>
          ELSE \E merged \in {MergeFileActivities(all_activities, result.activities)} :
                  /\ processed_files' = processed_files + 1
                  /\ raised' = merged.raised
                  /\ pc' = IF merged.raised # "" THEN "raised" ELSE "processing_files"
                  /\ all_activities' = IF merged.raised # "" THEN all_activities
                                        ELSE merged.all_activities
    /\ next_file' = next_file + 1
    /\ UNCHANGED <<main_vars, listing_vars>>
    /\ UNCHANGED <<criteria, events, next_event, user_activities, matched_events,
                   total_events, log_files, policy_vars>>

\* _process_all_log_files returns all_activities (lines 841-843)
ReturnAllActivities ==
    /\ pc = "processing_files"
    /\ next_file > Len(log_files)
    /\ pc' = "files_processed"
    /\ UNCHANGED <<main_vars, listing_vars, analyzer_vars, files_vars, policy_vars>>

FilesNext ==
    \/ ProcessLogFile
    \/ ReturnAllActivities

FilesSpec == FilesInit /\ [][FilesNext]_vars

(***************************************************************************)
(* Properties of the policy generator's run                                *)
(***************************************************************************)
Generated == pc \in {"generated", "optimized", "created"}

Optimized == pc \in {"optimized", "created"}

\* the activities of the loaded file that generate_policy_statements groups
GroupedActivities ==
    {analysis_data.activities[i].info : i \in
        {j \in 1..Len(analysis_data.activities) :
            /\ GetStr(analysis_data.activities[j].info, "service") # ""
            /\ GetStr(analysis_data.activities[j].info, "event_name") # ""}}

ServiceOf(info) == Lower(GetStr(info, "service"))

ActionsOf(info) ==
    Range(map_event_to_actions(ServiceOf(info), GetStr(info, "event_name")).actions)

\* the operation of the activity is listed in the wildcard operations table
InWildcardTable(info) ==
    /\ ServiceOf(info) \in DOMAIN wildcard_operations
    /\ GetStr(info, "event_name") \in wildcard_operations[ServiceOf(info)]

\* the generated statements that hold a permission of the activity
StatementsOf(info) ==
    {i \in 1..Len(statements) :
        /\ statements[i].actions \cap ActionsOf(info) # {}
        /\ StartsWith(statements[i].statement_id, Title(ServiceOf(info)) \o "Access")}

\* C1: the policy document made by optimize_policy_size and create_iam_policy,
\* as compact JSON with its Version/Statement wrapper and the commas between
\* its statements, is never longer than MAX_POLICY_SIZE characters
C1_PolicyWithinCeiling ==
    pc = "created" => JsonLen(policy) <= MAX_POLICY_SIZE

\* C2: whenever the document built from all the generated statements is longer
\* than MAX_POLICY_SIZE, optimize_policy_size leaves out at least one statement
\* and reports a skipped count greater than zero
C2_OverflowIsReported ==
    (Optimized /\ JsonLen(create_iam_policy(statements)) > MAX_POLICY_SIZE)
        => /\ Len(optimized.statements) < Len(statements)
           /\ optimized.skipped > 0

\* C3: an activity whose operation is in the wildcard operations table has its
\* permissions in statements whose Resource is exactly "*", whatever resources
\* the activity recorded
C3_WildcardOperationGetsStar ==
    Generated =>
        \A info \in GroupedActivities :
            InWildcardTable(info) =>
                /\ \A action \in ActionsOf(info) :
                      \E i \in StatementsOf(info) : action \in statements[i].actions
                /\ \A i \in StatementsOf(info) :
                      /\ statements[i].resources = {"*"}
                      /\ to_dict(statements[i]).v["Resource"] = JStr("*")

C3_Witness ==
    /\ pc = "created"
    /\ \E info \in GroupedActivities :
          /\ InWildcardTable(info)
          /\ GetResources(info) # << >>
          /\ StatementsOf(info) # {}

\* C4: the resource set of a statement is a subset of the resources recorded
\* for every activity that contributed to it, unless the activity's operation
\* is in the wildcard operations table or the activity recorded no resource;
\* such an activity is never given Resource "*"
C4_ScopeNeverWidens ==
    Generated =>
        \A info \in GroupedActivities :
            (~InWildcardTable(info) /\ GetResources(info) # << >>) =>
                \A i \in StatementsOf(info) :
                    /\ statements[i].resources \subseteq Range(GetResources(info))
                    /\ "*" \notin statements[i].resources

\* C5: every statement optimize_policy_size returns is one of its input
\* statements, with the same actions and the same resources, and no input
\* statement is returned twice
C5_WholeStatementsOnly ==
    Optimized =>
        \E f \in [1..Len(optimized.statements) -> 1..Len(statements)] :
            /\ \A k, l \in DOMAIN f : k # l => f[k] # f[l]
            /\ \A k \in DOMAIN f :
                  /\ optimized.statements[k].actions = statements[f[k]].actions
                  /\ optimized.statements[k].resources = statements[f[k]].resources
                  /\ optimized.statements[k] = statements[f[k]]

C5_Witness ==
    /\ Optimized
    /\ optimized.statements # << >>
    /\ Len(optimized.statements) < Len(statements)

\* the statements made from a bucket: those with its resources under its
\* service's statement ids
StatementsOfBucket(bucket) ==
    {i \in 1..Len(statements) :
        /\ statements[i].resources = bucket.resources
        /\ StartsWith(statements[i].statement_id, Title(bucket.service) \o "Access")}

CeilDiv(n, d) == (n + d - 1) \div d

\* C6: a bucket with n > MAX_ACTIONS_PER_STATEMENT permissions gives exactly
\* ceil(n / MAX_ACTIONS_PER_STATEMENT) statements with the bucket's resources,
\* each of at most MAX_ACTIONS_PER_STATEMENT actions, pairwise disjoint, whose
\* union is the bucket's permissions
C6_SplitAtCap ==
    Generated =>
        \A b \in 1..Len(buckets) :
            Cardinality(buckets[b].actions) > MAX_ACTIONS_PER_STATEMENT =>
                /\ Cardinality(StatementsOfBucket(buckets[b]))
                      = CeilDiv(Cardinality(buckets[b].actions), MAX_ACTIONS_PER_STATEMENT)
                /\ \A i \in StatementsOfBucket(buckets[b]) :
                      Cardinality(statements[i].actions) <= MAX_ACTIONS_PER_STATEMENT
                /\ \A i, j \in StatementsOfBucket(buckets[b]) :
                      i # j => statements[i].actions \cap statements[j].actions = {}
                /\ UNION {statements[i].actions : i \in StatementsOfBucket(buckets[b])}
                      = buckets[b].actions

C6_Witness ==
    /\ Generated
    /\ \E b \in 1..Len(buckets) :
          /\ Cardinality(buckets[b].actions) = 150
          /\ Cardinality(StatementsOfBucket(buckets[b])) = 2

(***************************************************************************)
(* Serializing constructed statements (PolicyStatement, create_iam_policy) *)
(***************************************************************************)
\* actions and resource sets of constructed statements; a dataclass default
\* leaves either set empty
StatementActions == SUBSET {"s3:GetObject", "s3:PutObject"}

StatementResources ==
    {{}, {"*"}, {"arn:aws:s3:::my-bucket/key1"},
     {"*", "arn:aws:s3:::my-bucket/key1"},
     {"arn:aws:s3:::my-bucket/key1", "arn:aws:s3:::my-bucket"}}

ConstructedStatements ==
    {PolicyStatement(a, r, sid) :
        a \in StatementActions, r \in StatementResources, sid \in {NoSid, "S3Access01"}}

StatementLists == UNION {[1..n -> ConstructedStatements] : n \in 0..MaxStmts}

\* reading a statement of the document back: "Action" is a list, "Resource"
\* a str or a list (print_detailed_policy_summary, lines 757-769)
ParsedActions(stmt) == Range([i \in 1..Len(stmt.v["Action"].v) |-> stmt.v["Action"].v[i].v])

ParsedResources(stmt) ==
    IF "Resource" \notin DOMAIN stmt.v THEN {"*"}
    ELSE IF stmt.v["Resource"].t = "list"
    THEN Range([i \in 1..Len(stmt.v["Resource"].v) |-> stmt.v["Resource"].v[i].v])
    ELSE {stmt.v["Resource"].v}

SerializeInit ==
    /\ pc = "constructed"
    /\ NoAnalyzer
    /\ NoFiles
    /\ NoOrchestrator
    /\ NoListing
    /\ statements \in StatementLists
    /\ analysis_data = [activities |-> << >>]
    /\ buckets = << >>
    /\ gen_warnings = {}
    /\ optimized = NoOptimized
    /\ policy = NoPolicy

\* create_iam_policy on the constructed statements
SerializeStatements ==
    /\ pc = "constructed"
    /\ policy' = create_iam_policy(statements)
    /\ pc' = "serialized"
    /\ UNCHANGED <<main_vars, listing_vars, files_vars, analyzer_vars, analysis_data, statements, buckets, gen_warnings, optimized>>

SerializeNext == SerializeStatements

SerializeSpec == SerializeInit /\ [][SerializeNext]_vars

\* the positions of the statements create_iam_policy serializes
SerializedPositions == SelectSeq([i \in 1..Len(statements) |-> i],
                                 LAMBDA i : statements[i].actions # {})

\* C9: serializing a statement with to_dict within create_iam_policy and
\* parsing it back gives the pairs actions x resources of the statement, for
\* every statement, one with no resources or no actions included
C9_RoundTrip ==
    pc = "serialized" =>
        /\ Len(policy.v["Statement"].v) = Len(SerializedPositions)
        /\ \A k \in 1..Len(SerializedPositions) :
              ParsedActions(policy.v["Statement"].v[k])
                    \X ParsedResources(policy.v["Statement"].v[k])
                 = statements[SerializedPositions[k]].actions
                    \X statements[SerializedPositions[k]].resources

\* C9 (amended): the round trip gives the pairs actions x resources of every
\* serialized statement whose resource set is not empty; a statement without
\* actions is not serialized, and one without resources is written with
\* Resource "*"
C9_RoundTripWithResources ==
    pc = "serialized" =>
        /\ Len(policy.v["Statement"].v) = Len(SerializedPositions)
        /\ \A k \in 1..Len(SerializedPositions) :
              /\ statements[SerializedPositions[k]].resources # {} =>
                    ParsedActions(policy.v["Statement"].v[k])
                          \X ParsedResources(policy.v["Statement"].v[k])
                       = statements[SerializedPositions[k]].actions
                          \X statements[SerializedPositions[k]].resources
              /\ statements[SerializedPositions[k]].resources = {} =>
                    ParsedResources(policy.v["Statement"].v[k]) = {"*"}

C9_Witness ==
    /\ pc = "serialized"
    /\ Len(policy.v["Statement"].v) = 1
    /\ Len(statements) = 2
    /\ \E i \in 1..Len(statements) :
          /\ statements[i].actions # {}
          /\ Cardinality(statements[i].resources) = 2

(***************************************************************************)
(* Properties of the analyzer's run                                        *)
(***************************************************************************)
Analyzed == pc \notin {"analyzing", "raised"}

\* the element is a record of the matched principal that analyze_user_activity
\* records: it parses, matches the criteria and has eventSource and eventName
IsRecorded(event) ==
    /\ ~ParseRaises(event)
    /\ ~ParseReturnsNone(event)
    /\ matches_user_criteria(parse_cloudtrail_event(event), criteria)
    /\ "eventSource" \in DOMAIN parse_cloudtrail_event(event)
    /\ "eventName" \in DOMAIN parse_cloudtrail_event(event)

ServiceOfRecord(record) == Replace(record.eventSource, ".amazonaws.com", "")

KeyOfRecord(record) == ServiceOfRecord(record) \o ":" \o record.eventName

\* the recorded events of the list, as records
RecordedRecords ==
    {parse_cloudtrail_event(events[k]) : k \in {j \in 1..Len(events) : IsRecorded(events[j])}}

\* the ARNs an event declares in its resources list
ObservedArns(record) ==
    IF "resources" \notin DOMAIN record THEN {}
    ELSE {record.resources[i].ARN : i \in DOMAIN record.resources}

\* the case of C7: an operation outside the wildcard operations table, declared
\* resources that are well-formed ARNs of the event's service, and no ARN in
\* requestParameters or responseElements
DeclaresOwnArnsOnly(record) ==
    /\ ~(ServiceOfRecord(record) \in DOMAIN wildcard_operations
           /\ record.eventName \in wildcard_operations[ServiceOfRecord(record)])
    /\ "resources" \in DOMAIN record /\ record.resources # << >>
    /\ \A i \in DOMAIN record.resources :
          /\ "ARN" \in DOMAIN record.resources[i]
          /\ StartsWith(record.resources[i].ARN, "arn:aws:")
          /\ Len(Split(record.resources[i].ARN, ":")) >= 6
          /\ Split(record.resources[i].ARN, ":")[3] = ServiceOfRecord(record)
    /\ "requestParameters" \in DOMAIN record
          => extract_arns_from_obj(record.requestParameters) = {}
    /\ "responseElements" \in DOMAIN record
          => extract_from_response(record.responseElements) = {}

\* the keys all of whose recorded events are in the case of C7
OwnArnKeys ==
    {KeyOfRecord(r) : r \in RecordedRecords}
        \ {KeyOfRecord(r) : r \in {q \in RecordedRecords : ~DeclaresOwnArnsOnly(q)}}

ObservedArnsOfKey(key) ==
    UNION {ObservedArns(r) : r \in {q \in RecordedRecords : KeyOfRecord(q) = key}}

\* the statements of the policy document that hold a permission of the key
PolicyStatementsOfKey(key) ==
    {k \in 1..Len(policy.v["Statement"].v) :
        \E i \in 1..Len(user_activities) :
            /\ user_activities[i].key = key
            /\ ParsedActions(policy.v["Statement"].v[k])
                  \cap Range(map_event_to_actions(
                                 Lower(user_activities[i].activity.service),
                                 user_activities[i].activity.event_name).actions) # {}}

\* C7: when the recorded events of a key are of operations outside the
\* wildcard operations table and declare well-formed ARNs of their own service
\* (no ARN in requestParameters or responseElements), the activity record of
\* the key holds exactly the declared ARNs and the statements with the key's
\* permissions have exactly these ARNs as Resource
C7_ObservedResourcesKept ==
    /\ Analyzed =>
          \A key \in OwnArnKeys :
              \E i \in 1..Len(user_activities) :
                  /\ user_activities[i].key = key
                  /\ user_activities[i].activity.resources = ObservedArnsOfKey(key)
    /\ pc = "created" =>
          \A key \in OwnArnKeys :
              /\ PolicyStatementsOfKey(key) # {}
              /\ \A k \in PolicyStatementsOfKey(key) :
                    /\ policy.v["Statement"].v[k].v["Resource"].t = "list"
                    /\ ParsedResources(policy.v["Statement"].v[k]) = ObservedArnsOfKey(key)

C7_Witness ==
    /\ pc = "created"
    /\ "s3:GetObject" \in OwnArnKeys
    /\ \E k \in PolicyStatementsOfKey("s3:GetObject") :
          policy.v["Statement"].v[k].v["Resource"]
              = JList(<<JStr("arn:aws:s3:::my-bucket/key1")>>)

\* the case of C8: two recorded events of the same service and operation
TwoEventsOfOneKey ==
    /\ pc = "analyzed"
    /\ Len(events) = 2
    /\ IsRecorded(events[1]) /\ IsRecorded(events[2])
    /\ KeyOfRecord(parse_cloudtrail_event(events[1]))
          = KeyOfRecord(parse_cloudtrail_event(events[2]))

\* C8: aggregating two matching events of the same (service, operation) in
\* either order gives activity records equal in every field
C8_AggregationCommutes ==
    TwoEventsOfOneKey =>
        analyze_user_activity(Reverse(events), criteria).user_activities = user_activities

\* the fields of an activity record that _update_existing_activity maintains
\* and the two that make its key
AccumulatedFields(activity) ==
    [service |-> activity.service, event_name |-> activity.event_name,
     resources |-> activity.resources, resource_types |-> activity.resource_types,
     actions |-> activity.actions, conditions |-> activity.conditions,
     source_ips |-> activity.source_ips, user_agents |-> activity.user_agents,
     count |-> activity.count,
     first_seen |-> activity.first_seen, last_seen |-> activity.last_seen]

\* C8 (amended): the two orders give records equal in service, event name,
\* resources, resource types, actions, conditions, source IPs, user agents,
\* count, first_seen and last_seen; user_identifier, user_type, event_source
\* and request_parameters are those of the event processed first
C8_AccumulatedFieldsCommute ==
    TwoEventsOfOneKey =>
        /\ Len(user_activities) = 1
        /\ Len(analyze_user_activity(Reverse(events), criteria).user_activities) = 1
        /\ AccumulatedFields(
               analyze_user_activity(Reverse(events), criteria).user_activities[1].activity)
              = AccumulatedFields(user_activities[1].activity)
        /\ user_activities[1].activity.count = 2
        /\ <<user_activities[1].activity.user_identifier,
             user_activities[1].activity.user_type>>
              = extract_user_info(parse_cloudtrail_event(events[1]))
        /\ user_activities[1].activity.event_source
              = parse_cloudtrail_event(events[1]).eventSource
        /\ user_activities[1].activity.request_parameters
              = extract_activity_data(parse_cloudtrail_event(events[1])).request_parameters

C8_Witness ==
    /\ TwoEventsOfOneKey
    /\ events[1] # events[2]
    /\ user_activities[1].activity.first_seen # user_activities[1].activity.last_seen
    /\ extract_user_info(parse_cloudtrail_event(events[1]))
          # extract_user_info(parse_cloudtrail_event(events[2]))

\* C10: no list of raw records makes analyze_user_activity raise; it skips the
\* invalid records, processes every record of the list and returns its map
C10_MalformedInputNeverAborts ==
    /\ raised = ""
    /\ pc # "raised"
    /\ Analyzed => total_events = Len(events)


(***************************************************************************)
(* Properties of the analyzer's run over log files                         *)
(***************************************************************************)
\* the files of the run that json.load reads
ReadableFiles == SelectSeq(log_files, LAMBDA file : LoadRaises(file) = "")

\* the merge, in file order, of what analyze_user_activity returns for the
\* events of each of the files from position k on
RECURSIVE MergeOfResults(_, _, _)
MergeOfResults(files, k, merged) ==
    IF k > Len(files) THEN merged
    ELSE MergeOfResults(
             files, k + 1,
             MergeFileActivities(
                 merged,
                 analyze_user_activity(EnvelopeEvents(files[k].data).events,
                                       criteria).user_activities).all_activities)

\* C11: no log file makes _process_all_log_files raise: a file that cannot
\* be read or decoded, or whose envelope is not recognized, ends only its own
\* processing; every file of the list is processed, and all_activities is then
\* the merge of the results of the files that could be read
C11_UnreadableFileAbortsOnlyItself ==
    /\ pc # "raised"
    /\ pc = "files_processed" =>
          /\ processed_files = Len(log_files)
          /\ all_activities = MergeOfResults(ReadableFiles, 1, << >>)

\* a file has just been processed and merged
FileMerged == pc = "processing_files" /\ next_file > 1

\* what process_cloudtrail_file returned for the file merged last
LastFileActivities ==
    process_cloudtrail_file(log_files[next_file - 1], criteria).activities

\* all_activities after the activities of the file merged last are merged
\* once more
MergedAgain == MergeFileActivities(all_activities, LastFileActivities).all_activities

\* C17: merging the activities of a file a second time leaves all_activities
\* as it was after the first merge, in every field, the count included
C17_MergeIdempotent ==
    FileMerged => MergedAgain = all_activities

\* C17, amended: merging the activities of a file a second time leaves the
\* keys, and in every record every field but the count, as they were after the
\* first merge; the count of each of the file's keys grows by the file's count
\* for the key, the other counts stay
C17_MergeAgainAddsCountsOnly ==
    FileMerged =>
        /\ Len(MergedAgain) = Len(all_activities)
        /\ \A i \in 1..Len(all_activities) :
              /\ MergedAgain[i].key = all_activities[i].key
              /\ [MergedAgain[i].activity EXCEPT !.count = 0]
                    = [all_activities[i].activity EXCEPT !.count = 0]
              /\ MergedAgain[i].activity.count
                    = all_activities[i].activity.count
                        + (IF KeyIndex(LastFileActivities, all_activities[i].key) = 0
                           THEN 0
                           ELSE LastFileActivities[
                                    KeyIndex(LastFileActivities,
                                             all_activities[i].key)].activity.count)

\* two files are merged, and an operation of the second is one of the first
\* too: its record counts more occurrences than the second file holds
C17_Witness ==
    /\ FileMerged
    /\ next_file = 3
    /\ \E i \in 1..Len(all_activities) :
          /\ KeyIndex(LastFileActivities, all_activities[i].key) # 0
          /\ all_activities[i].activity.count
                > LastFileActivities[KeyIndex(LastFileActivities,
                                              all_activities[i].key)].activity.count

(***************************************************************************)
(* Properties of principal matching                                        *)
(***************************************************************************)
\* the text with F applied to what follows the last occurrence of sep (to the
\* whole text when sep does not occur)
AfterLast(text, sep, F(_)) ==
    LET Cut(last) ==
            SubSeq(text, 1, Len(text) - Len(last)) \o F(last)
    IN  Cut(LastPiece(text, sep))

\* the identity with the letter case of the values given to compare_value
\* changed by F: userName, name, accessKeyId and arn, and when a role name is
\* searched the part of arn that holds the role name and the session name
\* (what follows its last "role/", its last "/" when there is none)
CaseChanged(user_identity, search_type, F(_)) ==
    [key \in DOMAIN user_identity |->
        IF key \in {"userName", "name", "accessKeyId"} THEN F(user_identity[key])
        ELSE IF key = "arn" /\ search_type # "role_name" THEN F(user_identity[key])
        ELSE IF key = "arn" /\ Contains(user_identity[key], "role/")
        THEN AfterLast(user_identity[key], "role/", F)
        ELSE IF key = "arn" THEN AfterLast(user_identity[key], "/", F)
        ELSE user_identity[key]]

\* the number of the events processed so far that parse to a record whose
\* identity, its case changed by F, matches the criterion, its case changed by G
MatchesWith(F(_), G(_)) ==
    Cardinality(
        {i \in 1..(next_event - 1) :
            /\ ~ParseRaises(events[i])
            /\ ~ParseReturnsNone(events[i])
            /\ LET Changed(record) ==
                       IF "userIdentity" \notin DOMAIN record THEN record
                       ELSE [record EXCEPT !.userIdentity =
                               CaseChanged(@, criteria.search_type, F)]
               IN  matches_user_criteria(
                       Changed(parse_cloudtrail_event(events[i])),
                       [criteria EXCEPT !.search_value = G(@)])})

Same(s) == s

\* C12: with case_sensitive false, analyze_user_activity matches the same
\* events when the criterion value, or the compared values of the identities
\* (userName, name, accessKeyId, arn; for a role name the role and session part
\* of arn), are written in upper or in lower case; with case_sensitive true a
\* criterion that differs from the identities in letter case only matches no
\* event (the events are matched while the run is in analyze_user_activity)
C12_MatchingIgnoresCase ==
    /\ (pc \in {"analyzing", "analyzed", "raised"} /\ ~criteria.case_sensitive) =>
          /\ matched_events = MatchesWith(Same, Upper)
          /\ matched_events = MatchesWith(Same, Lower)
          /\ matched_events = MatchesWith(Upper, Same)
          /\ matched_events = MatchesWith(Lower, Same)
    /\ criteria.case_sensitive /\ criteria.search_value = "BOB" =>
          matched_events = 0

\* two different events of bob are matched by the criterion BOB
C12_Witness ==
    /\ ~criteria.case_sensitive
    /\ criteria.search_value = "BOB"
    /\ matched_events = 2
    /\ events[1] # events[2]

(***************************************************************************)
(* Further properties of the policy generator's run                        *)
(***************************************************************************)
EventKeyOf(info) == ServiceOf(info) \o ":" \o GetStr(info, "event_name")

\* C13: every activity whose service:operation pair is not in the mapping
\* table is given the single permission "service:operation" and is warned
\* about, an s3 operation named Get..., Put... or Delete... included
C13_UnknownPairIsWarned ==
    Generated =>
        \A info \in GroupedActivities :
            ~InEventToActionMap(EventKeyOf(info)) =>
                /\ ActionsOf(info) = {EventKeyOf(info)}
                /\ EventKeyOf(info) \in gen_warnings

\* C14: optimize_policy_size prints one report per statement it leaves out,
\* and each report names the service and the number of permissions of a
\* statement left out
C14_SkippedStatementsReported ==
    Optimized =>
        /\ Len(optimized.skip_reports) = Len(statements) - Len(optimized.statements)
        /\ \A r \in 1..Len(optimized.skip_reports) :
              /\ "service" \in DOMAIN optimized.skip_reports[r]
              /\ "actions" \in DOMAIN optimized.skip_reports[r]

\* C15: the policy generator, given an analysis without activities, ends
\* without an error exit
C15_NoActivitiesIsNotAnError ==
    Len(analysis_data.activities) = 0 => pc # "exit_1"

\* the document of a run of generate_policy_statements, optimize_policy_size
\* and create_iam_policy over the activities
PolicyOf(activities, seed) ==
    create_iam_policy(
        optimize_policy_size(
            generate_policy_statements([activities |-> activities], seed).statements
        ).statements)

\* C16: the document is the same for the same activities in another order,
\* and in another process (another iteration order of the sets)
C16_DocumentIgnoresOrder ==
    pc = "created" =>
        \A seed \in HashSeeds :
            policy = PolicyOf(Reverse(analysis_data.activities), seed)

(***************************************************************************)
(* Further properties of serialization                                     *)
(***************************************************************************)
\* the serialized statement's Resource is the ascending array of the elements
\* of the resource set
IsSortedArrayOf(resource, resources) ==
    /\ resource.t = "list"
    /\ Len(resource.v) = Cardinality(resources)
    /\ {resource.v[i].v : i \in 1..Len(resource.v)} = resources
    /\ \A i \in 1..(Len(resource.v) - 1) : StrLess(resource.v[i].v, resource.v[i + 1].v)

\* C18: a serialized statement's Resource is the bare string "*" exactly when
\* its resource set is {"*"}; for every other resource set, the empty one
\* included, it is the ascending array of the set's elements
C18_StarOnlyForStarSet ==
    pc = "serialized" =>
        \A k \in 1..Len(SerializedPositions) :
            IF statements[SerializedPositions[k]].resources = {"*"}
            THEN policy.v["Statement"].v[k].v["Resource"] = JStr("*")
            ELSE IsSortedArrayOf(policy.v["Statement"].v[k].v["Resource"],
                                 statements[SerializedPositions[k]].resources)

\* C18, amended: Resource is the bare string "*" exactly when the resource set
\* is {"*"} or empty; for every other resource set, one that holds "*" beside
\* other entries included, it is the ascending array of the set's elements
C18_StarForStarOrEmptySet ==
    pc = "serialized" =>
        \A k \in 1..Len(SerializedPositions) :
            IF statements[SerializedPositions[k]].resources \in {{"*"}, {}}
            THEN policy.v["Statement"].v[k].v["Resource"] = JStr("*")
            ELSE IsSortedArrayOf(policy.v["Statement"].v[k].v["Resource"],
                                 statements[SerializedPositions[k]].resources)

\* a statement without resources and one with "*" beside an ARN are serialized
C18_Witness ==
    /\ pc = "serialized"
    /\ Len(SerializedPositions) = 2
    /\ statements[1].resources = {}
    /\ statements[2].resources = {"*", "arn:aws:s3:::my-bucket/key1"}

(***************************************************************************)
(* Further properties of the analyzer's run                                *)
(***************************************************************************)
\* the positions of the events processed so far that are recorded under key
ProcessedOfKey(key) ==
    {i \in 1..(next_event - 1) :
        IsRecorded(events[i]) /\ KeyOfRecord(parse_cloudtrail_event(events[i])) = key}

\* the keys of the events processed so far that are recorded
ProcessedKeys ==
    {KeyOfRecord(parse_cloudtrail_event(events[i])) :
        i \in {j \in 1..(next_event - 1) : IsRecorded(events[j])}}

\* C19: after every event processed without an exception, user_activities has
\* one record for each service:operation of the recorded events and no other;
\* service and event_name of a record make its key, and its count is the number
\* of recorded events of the key; the same event twice gives count 2 and the
\* other fields of one occurrence
C19_OneRecordPerOperation ==
    pc # "raised" =>
        /\ \A i, j \in 1..Len(user_activities) :
              user_activities[i].key = user_activities[j].key => i = j
        /\ {user_activities[i].key : i \in 1..Len(user_activities)} = ProcessedKeys
        /\ \A i \in 1..Len(user_activities) :
              /\ user_activities[i].activity.service \o ":"
                    \o user_activities[i].activity.event_name = user_activities[i].key
              /\ user_activities[i].activity.count
                    = Cardinality(ProcessedOfKey(user_activities[i].key))
        /\ (next_event = 3 /\ events[1] = events[2] /\ IsRecorded(events[1])) =>
              /\ Len(user_activities) = 1
              /\ user_activities[1].activity
                    = [analyze_user_activity(<<events[1]>>, criteria)
                           .user_activities[1].activity EXCEPT !.count = 2]

\* the same recorded event twice
C19_Witness ==
    /\ pc = "analyzed"
    /\ Len(events) = 2
    /\ events[1] = events[2]
    /\ IsRecorded(events[1])
    /\ user_activities[1].activity.count = 2
    /\ user_activities[1].activity.resources # {}

\* C20: a recorded event that declares resources contributes exactly the
\* declared ARNs: the record of an operation seen once, in an event with a
\* non-empty declared-resources list, holds the declared ARNs and nothing from
\* requestParameters or responseElements
C20_DeclaredResourcesTakePrecedence ==
    pc # "raised" =>
        \A i \in 1..Len(user_activities) :
            \A k \in ProcessedOfKey(user_activities[i].key) :
                (user_activities[i].activity.count = 1
                   /\ DeclaredArns(parse_cloudtrail_event(events[k])) # {})
                  => user_activities[i].activity.resources
                        = DeclaredArns(parse_cloudtrail_event(events[k]))

(***************************************************************************)
(* analyze_user_activity with a role-name criterion                        *)
(***************************************************************************)
AdminAsDeployBot ==
    [type |-> "AssumedRole", principalId |-> "AROAADMIN:deploy-bot",
     arn |-> "arn:aws:sts::123456789012:assumed-role/Admin/deploy-bot"]

DeployRole ==
    [type |-> "Role", principalId |-> "AROADEPLOY",
     arn |-> "arn:aws:iam::123456789012:role/Deploy"]

\* one event of each identity
RoleEventCatalog ==
    << JDict([eventSource |-> "s3.amazonaws.com", eventName |-> "GetObject",
              userIdentity |-> BobAsDeploy, eventTime |-> "2024-01-15T10:30:00Z"]),
       JDict([eventSource |-> "s3.amazonaws.com", eventName |-> "PutObject",
              userIdentity |-> AdminAsDeployBot, eventTime |-> "2024-01-15T10:31:00Z"]),
       JDict([eventSource |-> "ec2.amazonaws.com", eventName |-> "RunInstances",
              userIdentity |-> DeployRole, eventTime |-> "2024-01-15T10:32:00Z"]),
       JDict([eventSource |-> "iam.amazonaws.com", eventName |-> "ListUsers",
              userIdentity |-> Bob, eventTime |-> "2024-01-15T10:33:00Z"]) >>

RoleCriteriaCatalog ==
    {[search_type |-> "role_name", search_value |-> v, case_sensitive |-> c] :
        v \in {"Deploy", "Admin", "bob"}, c \in BOOLEAN}

RoleEventLists ==
    UNION {[1..n -> Range(RoleEventCatalog)] : n \in 0..MaxRoleEvents}

RoleInit ==
    /\ pc = "analyzing"
    /\ criteria \in RoleCriteriaCatalog
    /\ events \in RoleEventLists
    /\ next_event = 1
    /\ user_activities = << >>
    /\ matched_events = 0
    /\ total_events = 0
    /\ raised = ""
    /\ NoFiles
    /\ NoOrchestrator
    /\ NoListing
    /\ NoPolicyRun

RoleNext ==
    \/ AnalyzeEvent
    \/ ReturnActivities

RoleSpec == RoleInit /\ [][RoleNext]_vars

\* the role name of an assumed-role ARN: the segment before the session name
AssumedRoleName(arn) == Split(arn, "/")[Len(Split(arn, "/")) - 1]

\* the identity has an assumed-role ARN whose role name the criterion does not
\* match
RoleNameExtractedWithoutMatch(event) ==
    /\ ~ParseRaises(event)
    /\ ~ParseReturnsNone(event)
    /\ "userIdentity" \in DOMAIN parse_cloudtrail_event(event)
    /\ "arn" \in DOMAIN parse_cloudtrail_event(event).userIdentity
    /\ Contains(parse_cloudtrail_event(event).userIdentity.arn, ":assumed-role/")
    /\ Len(Split(parse_cloudtrail_event(event).userIdentity.arn, "/")) >= 3
    /\ ~compare_value(AssumedRoleName(parse_cloudtrail_event(event).userIdentity.arn),
                      criteria)

\* C21: with a role-name criterion, an event whose assumed-role ARN gives a
\* role name that does not match is not matched through its session name: the
\* matched events are among the other events processed
C21_SessionNameOnlyAsFallback ==
    criteria.search_type = "role_name" =>
        matched_events
            <= Cardinality({i \in 1..(next_event - 1) :
                               ~RoleNameExtractedWithoutMatch(events[i])})

(***************************************************************************)
(* Properties of statement aggregation                                     *)
(***************************************************************************)
\* the grouped activities of the service whose resource set is resource_arns
ActivitiesOfBucket(service, resource_arns) ==
    {info \in GroupedActivities :
        ServiceOf(info) = service /\ extract_resource_arns(info) = resource_arns}

Excluded(event) ==
    /\ ~ParseRaises(event)
    /\ ~ParseReturnsNone(event)
    /\ \/ "userIdentity" \notin DOMAIN parse_cloudtrail_event(event)
       \/ ~matches_user_criteria(parse_cloudtrail_event(event), criteria)
       \/ "eventSource" \notin DOMAIN parse_cloudtrail_event(event)
       \/ "eventName" \notin DOMAIN parse_cloudtrail_event(event)

\* C23: the iteration of analyze_user_activity over a record without identity
\* block, a record that does not match the criteria or a record without
\* eventSource or eventName raises nothing and leaves user_activities as it
\* is: no key is added and no field of a record changes
C23_ExcludedEventLeavesMap ==
    [][(pc = "analyzing" /\ next_event <= Len(events) /\ Excluded(events[next_event]))
          => (user_activities' = user_activities /\ raised' = "")]_vars

\* an excluded event has been processed after a recorded one
C23_Witness ==
    /\ pc = "analyzing"
    /\ next_event = 3
    /\ IsRecorded(events[1])
    /\ Excluded(events[2])
    /\ Len(user_activities) = 1
    /\ user_activities[1].activity.count = 1

(***************************************************************************)
(* Properties of the packing                                               *)
(***************************************************************************)
\* the sum of the sizes of the statements optimize_policy_size returned
KeptSize ==
    SumSeq([k \in 1..Len(optimized.statements) |->
               estimated_size(optimized.statements[k])])

\* the positions of the statements optimize_policy_size left out
SkippedPositions ==
    {i \in 1..Len(statements) :
        \A k \in 1..Len(optimized.kept) : optimized.kept[k] # i}

\* C24: when optimize_policy_size leaves statements out, the sizes of the
\* statements it returns add up to at most MAX_POLICY_SIZE, and adding any
\* statement left out would take the sum over MAX_POLICY_SIZE: a statement
\* that does not fit does not end the scan
C24_PackingIsMaximal ==
    (Optimized /\ SkippedPositions # {}) =>
        /\ KeptSize <= MAX_POLICY_SIZE
        /\ \A i \in SkippedPositions :
              KeptSize + estimated_size(statements[i]) > MAX_POLICY_SIZE

\* a statement is left out and a smaller one, scanned later, is returned
C24_Witness ==
    /\ Optimized
    /\ \E i \in SkippedPositions :
          \E k \in 1..Len(optimized.statements) :
              estimated_size(optimized.statements[k]) < estimated_size(statements[i])

(***************************************************************************)
(* Properties of the merge against a single pass                           *)
(***************************************************************************)
\* the file is read and its envelope holds a list of events
HoldsEvents(file) ==
    /\ LoadRaises(file) = ""
    /\ ~EnvelopeRaises(file.data)
    /\ ~EnvelopeEvents(file.data).none

\* the events of the files from position k on, one file after the other
RECURSIVE ConcatenatedEvents(_, _)
ConcatenatedEvents(files, k) ==
    IF k > Len(files) THEN << >>
    ELSE EnvelopeEvents(files[k].data).events \o ConcatenatedEvents(files, k + 1)

\* analyze_user_activity run once over the events of all the files
SinglePass == analyze_user_activity(ConcatenatedEvents(log_files, 1), criteria)

\* the two maps have the same keys and, for each key, the same accumulated
\* fields
SameAccumulated(merged, single) ==
    /\ {merged[i].key : i \in 1..Len(merged)} = {single[j].key : j \in 1..Len(single)}
    /\ \A i \in 1..Len(merged) :
          \A j \in 1..Len(single) :
              merged[i].key = single[j].key =>
                  AccumulatedFields(merged[i].activity)
                      = AccumulatedFields(single[j].activity)

\* C25: the map _process_all_log_files returns for files that each hold a
\* list of events has the keys of analyze_user_activity run once over the
\* concatenation of the files' events and, for each key, the same resources,
\* resource types, actions, conditions, source IPs, user agents, count,
\* first_seen and last_seen
C25_MergeEqualsSinglePass ==
    (/\ pc = "files_processed"
     /\ \A k \in 1..Len(log_files) : HoldsEvents(log_files[k])) =>
        \E single \in {SinglePass} :
            /\ single.raised = ""
            /\ SameAccumulated(all_activities, single.user_activities)

\* two files of events are merged, and an operation occurs in both: its
\* count is more than either file holds
C25_Witness ==
    /\ pc = "files_processed"
    /\ Len(log_files) = 2
    /\ \A k \in 1..2 : HoldsEvents(log_files[k])
    /\ \E i \in 1..Len(all_activities) :
          \A k \in 1..2 :
              \E file_activities \in
                    {process_cloudtrail_file(log_files[k], criteria).activities} :
                  /\ KeyIndex(file_activities, all_activities[i].key) # 0
                  /\ all_activities[i].activity.count
                        > file_activities[KeyIndex(file_activities,
                                                   all_activities[i].key)].activity.count

(***************************************************************************)
(* Properties of the statements' shape                                     *)
(***************************************************************************)
\* C26: every statement generate_policy_statements returns has at least one
\* action and at least one resource, and its resources are either exactly
\* {"*"} or strings that start with "arn:aws:"; "*" never stands beside an
\* ARN
C26_StatementsWellFormed ==
    Generated =>
        \A i \in 1..Len(statements) :
            /\ statements[i].actions # {}
            /\ statements[i].resources # {}
            /\ \/ statements[i].resources = {"*"}
               \/ \A arn \in statements[i].resources : StartsWith(arn, "arn:aws:")
            /\ "*" \in statements[i].resources => statements[i].resources = {"*"}

\* an activity records a resource that is not an ARN beside one that is, and
\* the statements hold one over "*" and one over ARNs
C26_Witness ==
    /\ Generated
    /\ \E info \in GroupedActivities :
          \E arn \in Range(GetResources(info)) : ~StartsWith(arn, "arn:aws:")
    /\ \E i \in 1..Len(statements) : statements[i].resources = {"*"}
    /\ \E i \in 1..Len(statements) : "*" \notin statements[i].resources

(***************************************************************************)
(* Properties of the count of matching events                              *)
(***************************************************************************)
\* the sum of the counts of the records of user_activities
CountedOccurrences ==
    SumSeq([i \in 1..Len(user_activities) |-> user_activities[i].activity.count])

\* the element is a record of the matched principal without eventSource or
\* without eventName
MatchingWithoutOperation(event) ==
    /\ ~ParseRaises(event)
    /\ ~ParseReturnsNone(event)
    /\ matches_user_criteria(parse_cloudtrail_event(event), criteria)
    /\ \/ "eventSource" \notin DOMAIN parse_cloudtrail_event(event)
       \/ "eventName" \notin DOMAIN parse_cloudtrail_event(event)

\* C27: the number of matching events analyze_user_activity reports is the
\* sum of the counts of the records it returns
C27_MatchedIsSumOfCounts ==
    pc = "analyzed" => matched_events = CountedOccurrences

\* C27, amended: the number of matching events analyze_user_activity reports
\* is the sum of the counts of the records it returns plus the number of
\* matching records without eventSource or eventName
C27_MatchedIsCountsPlusUnrecorded ==
    pc = "analyzed" =>
        matched_events
            = CountedOccurrences
                + Cardinality({k \in 1..Len(events) : MatchingWithoutOperation(events[k])})

\* a matching record without eventName has been counted beside a recorded one
C27_Witness ==
    /\ pc = "analyzed"
    /\ Len(events) = 2
    /\ IsRecorded(events[1])
    /\ MatchingWithoutOperation(events[2])
    /\ matched_events = 2
    /\ CountedOccurrences = 1

(***************************************************************************)
(* The orchestrator (main.py)                                              *)
(*                                                                         *)
(* input() returns a text or raises; subprocess.run returns when the       *)
(* module exits with 0 and raises otherwise.  Both are the environment's   *)
(* choice.                                                                 *)
(***************************************************************************)
MODULES ==
    [download_cloudtrail_logs |-> "download_cloudtrail_logs.py",
     unique_events_from_logs |-> "unique_events_from_logs.py",
     generate_policy |-> "generate_policy.py"]

\* S3 API prices per 1000 requests, in units of 0.0001 USD
S3_LIST_COST_PER_1000 == 5

S3_GET_COST_PER_1000 == 4

\* str.strip() for texts padded with blanks
RECURSIVE Strip(_)
Strip(s) ==
    IF Len(s) > 0 /\ Chr(s, 1) = " " THEN Strip(SubSeq(s, 2, Len(s)))
    ELSE IF Len(s) > 0 /\ Chr(s, Len(s)) = " " THEN Strip(SubSeq(s, 1, Len(s) - 1))
    ELSE s

\* a text of one character that str.isdigit() accepts and int() rejects
\* (SUPERSCRIPT TWO)
SuperscriptTwo == "<U+00B2>"

\* str.isdigit()
isdigit(s) == s = SuperscriptTwo \/ (Len(s) > 0 /\ IsDigits(s))

\* int(s) raises ValueError
IntRaises(s) == s = SuperscriptTwo

\* what input() does: it returns a text or raises
Typed(text) == [raises |-> "", text |-> text]

Raising(exception) == [raises |-> exception, text |-> ""]

\* the answers to the prompts of estimate_download_cost
DaysInputs == {Typed(""), Typed(" 2 "), Typed(SuperscriptTwo), Raising("KeyboardInterrupt")}

RegionsInputs == {Typed(""), Typed("2"), Raising("EOFError")}

ActivityInputs == {Typed(""), Typed("3"), Typed("9"), Raising("KeyboardInterrupt")}

\* the answers to a y/n prompt
ConfirmInputs ==
    {Typed("y"), Typed(" YES "), Typed("n"), Typed(""), Raising("KeyboardInterrupt")}

\* confirm in ["y", "yes"] after strip().lower()
IsYes(text) == Lower(Strip(text)) \in {"y", "yes"}

\* what subprocess.run does with the module
RunOutcomes ==
    {"exit_0", "CalledProcessError", "FileNotFoundError", "KeyboardInterrupt",
     "PermissionError"}

\* run_module: launched tells whether subprocess.run was called, returned is
\* the value returned, raised the exception that run_module does not catch
run_module(module_name, files, outcome) ==
    IF module_name \notin DOMAIN MODULES
    THEN [launched |-> FALSE, returned |-> FALSE, raised |-> ""]
    ELSE IF MODULES[module_name] \notin files
    THEN [launched |-> FALSE, returned |-> FALSE, raised |-> ""]
    ELSE IF outcome = "exit_0"
    THEN [launched |-> TRUE, returned |-> TRUE, raised |-> ""]
    ELSE IF outcome \in {"CalledProcessError", "FileNotFoundError", "KeyboardInterrupt"}
    THEN [launched |-> TRUE, returned |-> FALSE, raised |-> ""]
    ELSE [launched |-> TRUE, returned |-> FALSE, raised |-> outcome]

\* the estimate's dictionary (lines 155-165, 199-209); the costs are in units
\* of 0.0000001 USD
CostEstimate(days, regions, activity_level) ==
    LET base_list_calls == IF activity_level = 1 THEN 10
                           ELSE IF activity_level = 2 THEN 50 ELSE 200
        base_get_calls == IF activity_level = 1 THEN 100
                          ELSE IF activity_level = 2 THEN 500 ELSE 2000
        total_list_calls == base_list_calls * days * regions
        total_get_calls == base_get_calls * days * regions
    IN  [none |-> FALSE, days |-> days, regions |-> regions,
         activity_level |-> activity_level,
         list_calls |-> total_list_calls, get_calls |-> total_get_calls,
         list_cost |-> total_list_calls * S3_LIST_COST_PER_1000,
         get_cost |-> total_get_calls * S3_GET_COST_PER_1000,
         total_cost |-> total_list_calls * S3_LIST_COST_PER_1000
                          + total_get_calls * S3_GET_COST_PER_1000]

\* estimate_download_cost on the answers to its three prompts: the value
\* returned, or the exception it does not catch; a prompt is read only when
\* the ones before it returned
estimate_download_cost(date_range, regions_input, activity_input) ==
    LET Left(exception) ==
            IF exception \in {"ValueError", "KeyboardInterrupt"}
            THEN [estimate |-> None, raised |-> ""]
            ELSE [estimate |-> None, raised |-> exception]
        Number(text, default) == IF isdigit(Strip(text)) THEN ToNat(Strip(text)) ELSE default
        Level(text) == IF Strip(text) \in {"1", "2", "3"} THEN ToNat(Strip(text)) ELSE 2
    IN  IF date_range.raises # "" THEN Left(date_range.raises)
        ELSE IF isdigit(Strip(date_range.text)) /\ IntRaises(Strip(date_range.text))
        THEN Left("ValueError")
        ELSE IF regions_input.raises # "" THEN Left(regions_input.raises)
        ELSE IF isdigit(Strip(regions_input.text)) /\ IntRaises(Strip(regions_input.text))
        THEN Left("ValueError")
        ELSE IF activity_input.raises # "" THEN Left(activity_input.raises)
        ELSE [estimate |-> CostEstimate(Number(date_range.text, 7),
                                        Number(regions_input.text, 1),
                                        Level(activity_input.text)),
              raised |-> ""]

\* "if cost_estimate:": None is false, a dictionary with entries is true
HasEstimate(estimate) == estimate # None

\* a variant of the step's if/else that goes on whatever the step returned
NextStep_regardless(following, ok) == following

\* "if <step>(): ... else: ... return" of run_complete_workflow (lines
\* 260-284): where the workflow goes after a step returned ok
NextStep(following, ok) == IF ok THEN following ELSE "returned"

MainInit ==
    /\ choice \in {"1", "4"}
    /\ pc = IF choice = "4" THEN "run_complete_workflow" ELSE "download_cloudtrail_logs"
    /\ existing \in SUBSET {MODULES[m] : m \in DOMAIN MODULES}
    /\ cost_estimate = None
    /\ confirmations = << >>
    /\ launched = << >>
    /\ step_results = << >>
    /\ workflow_complete = FALSE
    /\ interrupted = ""
    /\ NoAnalyzer
    /\ NoFiles
    /\ NoPolicyRun
    /\ NoListing

\* "Continue with complete workflow? (y/n)" (lines 250-253)
ConfirmWorkflow ==
    /\ pc = "run_complete_workflow"
    /\ \E confirm \in ConfirmInputs :
          IF confirm.raises # ""
          THEN /\ interrupted' = confirm.raises
               /\ pc' = "raised"
               /\ UNCHANGED confirmations
          ELSE /\ confirmations' =
                     Append(confirmations,
                            [prompt |-> "Continue with complete workflow?",
                             confirm |-> Lower(Strip(confirm.text))])
               /\ pc' = IF IsYes(confirm.text) THEN "download_cloudtrail_logs"
                        ELSE "returned"
               /\ UNCHANGED interrupted
    /\ UNCHANGED <<choice, existing, cost_estimate, launched, step_results,
                   workflow_complete>>
    /\ UNCHANGED <<analyzer_vars, files_vars, policy_vars, listing_vars>>

\* download_cloudtrail_logs calls estimate_download_cost (line 218)
EstimateDownloadCost ==
    /\ pc = "download_cloudtrail_logs"
    /\ \E date_range \in DaysInputs, regions_input \in RegionsInputs,
          activity_input \in ActivityInputs :
          \E result \in {estimate_download_cost(date_range, regions_input,
                                                 activity_input)} :
              /\ cost_estimate' = result.estimate
              /\ interrupted' = result.raised
              /\ pc' = IF result.raised # "" THEN "raised" ELSE "estimated"
    /\ UNCHANGED <<choice, existing, confirmations, launched, step_results,
                   workflow_complete>>
    /\ UNCHANGED <<analyzer_vars, files_vars, policy_vars, listing_vars>>

\* a step of the workflow ends: run_module was called with the outcome, or
\* the step returned False before it (declined |-> TRUE)
StepEnds(module_name, following, declined, outcome) ==
    \E run \in {IF declined
                THEN [launched |-> FALSE, returned |-> FALSE, raised |-> ""]
                ELSE run_module(module_name, existing, outcome)} :
        /\ launched' = IF run.launched
                       THEN Append(launched, [module |-> module_name,
                                              returned |-> run.returned,
                                              raised |-> run.raised])
                       ELSE launched
        /\ interrupted' = run.raised
        /\ step_results' = IF run.raised # "" THEN step_results
                           ELSE Append(step_results, run.returned)
        /\ pc' = IF run.raised # "" THEN "raised"
                 ELSE IF choice = "4" THEN NextStep(following, run.returned)
                 ELSE "returned"

\* the rest of download_cloudtrail_logs (lines 220-227), and in the workflow
\* the if/else on its result (lines 259-266)
ProceedWithDownload ==
    /\ pc = "estimated"
    /\ IF HasEstimate(cost_estimate)
       THEN \E confirm \in ConfirmInputs :
               IF confirm.raises # ""
               THEN /\ interrupted' = confirm.raises
                    /\ pc' = "raised"
                    /\ UNCHANGED <<confirmations, launched, step_results>>
               ELSE /\ confirmations' =
                          Append(confirmations,
                                 [prompt |-> "Proceed with download?",
                                  confirm |-> Lower(Strip(confirm.text))])
                    /\ \E outcome \in RunOutcomes :
                          StepEnds("download_cloudtrail_logs", "analyze_user_activity",
                                   ~IsYes(confirm.text), outcome)
       ELSE /\ UNCHANGED confirmations
            /\ \E outcome \in RunOutcomes :
                  StepEnds("download_cloudtrail_logs", "analyze_user_activity",
                           FALSE, outcome)
    /\ UNCHANGED <<choice, existing, cost_estimate, workflow_complete>>
    /\ UNCHANGED <<analyzer_vars, files_vars, policy_vars, listing_vars>>

\* step 2 of run_complete_workflow (lines 268-275)
AnalyzeStep ==
    /\ pc = "analyze_user_activity"
    /\ \E outcome \in RunOutcomes :
          StepEnds("unique_events_from_logs", "generate_iam_policy", FALSE, outcome)
    /\ UNCHANGED <<choice, existing, cost_estimate, confirmations, workflow_complete>>
    /\ UNCHANGED <<analyzer_vars, files_vars, policy_vars, listing_vars>>

\* step 3 of run_complete_workflow (lines 277-284)
GenerateStep ==
    /\ pc = "generate_iam_policy"
    /\ \E outcome \in RunOutcomes :
          StepEnds("generate_policy", "workflow_complete", FALSE, outcome)
    /\ UNCHANGED <<choice, existing, cost_estimate, confirmations, workflow_complete>>
    /\ UNCHANGED <<analyzer_vars, files_vars, policy_vars, listing_vars>>

\* "WORKFLOW COMPLETE!" (lines 286-295)
ReportComplete ==
    /\ pc = "workflow_complete"
    /\ workflow_complete' = TRUE
    /\ pc' = "returned"
    /\ UNCHANGED <<choice, existing, cost_estimate, confirmations, launched,
                   step_results, interrupted>>
    /\ UNCHANGED <<analyzer_vars, files_vars, policy_vars, listing_vars>>

MainNext ==
    \/ ConfirmWorkflow
    \/ EstimateDownloadCost
    \/ ProceedWithDownload
    \/ AnalyzeStep
    \/ GenerateStep
    \/ ReportComplete

MainSpec == MainInit /\ [][MainNext]_vars

(***************************************************************************)
(* Properties of the orchestrator                                          *)
(***************************************************************************)
\* the modules of the workflow, in its order
WorkflowOrder ==
    <<"download_cloudtrail_logs", "unique_events_from_logs", "generate_policy">>

\* C28: run_complete_workflow starts the modules in the order download,
\* analyze, generate, each only after the step before it returned True; after
\* a step that returned False, was cancelled or raised, no module is started
\* and the workflow is not reported complete
C28_StepsInOrder ==
    choice = "4" =>
        /\ Len(launched) <= Len(WorkflowOrder)
        /\ \A k \in 1..Len(launched) :
              /\ launched[k].module = WorkflowOrder[k]
              /\ k > 1 => launched[k - 1].returned
              /\ launched[k].raised # "" => k = Len(launched) /\ pc = "raised"
              /\ Len(step_results) >= k - 1
              /\ \A j \in 1..(k - 1) : step_results[j]
        /\ \A j \in 1..Len(step_results) :
              ~step_results[j] => j = Len(step_results) /\ Len(launched) <= j
        /\ workflow_complete =>
              /\ Len(launched) = Len(WorkflowOrder)
              /\ \A k \in 1..Len(launched) : launched[k].returned
              /\ step_results = <<TRUE, TRUE, TRUE>>

\* the analysis step failed after the download: the policy module was not
\* started and the workflow returned without reporting completion
C28_Witness ==
    /\ choice = "4"
    /\ pc = "returned"
    /\ step_results = <<TRUE, FALSE>>
    /\ Len(launched) = 2
    /\ ~workflow_complete

\* C29: the download module is started only after the user answered y or yes
\* to "Proceed with download?"
C29_DownloadOnlyAfterConfirmation ==
    (\E k \in 1..Len(launched) : launched[k].module = "download_cloudtrail_logs") =>
        \E c \in 1..Len(confirmations) :
            /\ confirmations[c].prompt = "Proceed with download?"
            /\ confirmations[c].confirm \in {"y", "yes"}

(***************************************************************************)
(* The parallel listing (download_cloudtrail_logs.py, list_log_files)      *)
(*                                                                         *)
(* A prefix of the bucket is what the paginator does for it: the pages it  *)
(* yields, each with the keys of its "Contents" (none |-> TRUE for a page  *)
(* without "Contents"), and fault_at, the page whose request raises        *)
(* ClientError (0 when none does).                                         *)
(***************************************************************************)
Page(keys) == [none |-> FALSE, keys |-> keys]

PrefixCatalog ==
    << [prefix |-> "AWSLogs/123456789012/CloudTrail/us-east-1/2024/01/15/",
        pages |-> <<Page(<<"AWSLogs/123456789012/CloudTrail/us-east-1/2024/01/15/a.json.gz",
                           "AWSLogs/123456789012/CloudTrail/us-east-1/2024/01/15/digest.txt">>),
                    Page(<<"AWSLogs/123456789012/CloudTrail/us-east-1/2024/01/15/b.json.gz">>)>>,
        fault_at |-> 0],
       [prefix |-> "AWSLogs/123456789012/CloudTrail/us-east-1/2024/01/16/",
        pages |-> <<[none |-> TRUE, keys |-> << >>]>>,
        fault_at |-> 0],
       [prefix |-> "AWSLogs/123456789012/CloudTrail/eu-west-1/2024/01/15/",
        pages |-> << >>,
        fault_at |-> 1],
       [prefix |-> "AWSLogs/123456789012/CloudTrail/eu-west-1/2024/01/16/",
        pages |-> <<Page(<<"AWSLogs/123456789012/CloudTrail/eu-west-1/2024/01/16/c.json.gz">>)>>,
        fault_at |-> 2] >>

\* the lists of at most MaxPrefixes distinct catalogued prefixes
PrefixLists ==
    UNION {{list \in [1..n -> Range(PrefixCatalog)] :
               \A i, j \in 1..n : list[i] = list[j] => i = j} : n \in 0..MaxPrefixes}

\* [obj for obj in page["Contents"] if obj["Key"].endswith(".json.gz")]
LogFilesOf(keys) == SelectSeq(keys, LAMBDA key : EndsWith(key, ".json.gz"))

\* the loop over the pages from page k on (lines 232-239)
RECURSIVE ListPages(_, _, _)
ListPages(entry, k, listed) ==
    IF k = entry.fault_at THEN [listed EXCEPT !.raised = "ClientError"]
    ELSE IF k > Len(entry.pages) THEN listed
    ELSE ListPages(entry, k + 1,
                   [listed EXCEPT
                       !.requests = @ + 1,
                       !.files = IF entry.pages[k].none THEN @
                                 ELSE @ \o LogFilesOf(entry.pages[k].keys)])

\* list_prefix: the value it returns and the LIST requests it counted; the
\* except clause assigns files = [] and falls off the end of the function,
\* which returns None (lines 249-254)
list_prefix(entry) ==
    LET Returned(listed) ==
            IF listed.raised = "ClientError"
            THEN [result |-> None, requests |-> listed.requests]
            ELSE [result |-> listed.files, requests |-> listed.requests]
    IN  Returned(ListPages(entry, 1, [files |-> << >>, requests |-> 0, raised |-> ""]))

ListingInit ==
    /\ pc = "listing"
    /\ prefixes \in PrefixLists
    /\ futures = [i \in 1..Len(prefixes) |-> [state |-> "pending", result |-> None]]
    /\ completed = << >>
    /\ next_completed = 1
    /\ all_files = << >>
    /\ list_requests = 0
    /\ list_raised = ""
    /\ NoAnalyzer
    /\ NoFiles
    /\ NoPolicyRun
    /\ NoOrchestrator

\* a worker of the executor runs list_prefix for one prefix; the workers of
\* an executor that is being left run on (shutdown waits for them)
ListPrefix ==
    /\ pc \in {"listing", "leaving_executor"}
    /\ \E i \in 1..Len(prefixes) :
          /\ futures[i].state = "pending"
          /\ \E listed \in {list_prefix(prefixes[i])} :
                /\ futures' = [futures EXCEPT ![i] = [state |-> "done",
                                                      result |-> listed.result]]
                /\ list_requests' = list_requests + listed.requests
          /\ completed' = Append(completed, i)
    /\ UNCHANGED <<pc, prefixes, next_completed, all_files, list_raised>>
    /\ UNCHANGED <<analyzer_vars, files_vars, policy_vars, main_vars>>

\* one iteration of "for future in as_completed(future_to_prefix)" (lines
\* 260-262): all_files.extend(None) raises TypeError
TakeCompleted ==
    /\ pc = "listing"
    /\ next_completed <= Len(completed)
    /\ \E files \in {futures[completed[next_completed]].result} :
          IF files = None
          THEN /\ list_raised' = "TypeError"
               /\ pc' = "leaving_executor"
               /\ UNCHANGED all_files
          ELSE /\ all_files' = all_files \o files
               /\ UNCHANGED <<pc, list_raised>>
    /\ next_completed' = next_completed + 1
    /\ UNCHANGED <<prefixes, futures, completed, list_requests>>
    /\ UNCHANGED <<analyzer_vars, files_vars, policy_vars, main_vars>>

\* the with block of the executor is left by the exception once every worker
\* is done
LeaveExecutor ==
    /\ pc = "leaving_executor"
    /\ \A i \in 1..Len(prefixes) : futures[i].state = "done"
    /\ pc' = "raised"
    /\ UNCHANGED <<analyzer_vars, files_vars, policy_vars, main_vars, listing_vars>>

\* list_log_files returns all_files (lines 264-265)
ReturnAllFiles ==
    /\ pc = "listing"
    /\ next_completed > Len(prefixes)
    /\ pc' = "listed"
    /\ UNCHANGED <<analyzer_vars, files_vars, policy_vars, main_vars, listing_vars>>

ListingNext ==
    \/ ListPrefix
    \/ TakeCompleted
    \/ LeaveExecutor
    \/ ReturnAllFiles

ListingSpec == ListingInit /\ [][ListingNext]_vars

(***************************************************************************)
(* Properties of the parallel listing                                      *)
(***************************************************************************)
\* the log files under the prefixes from position k on whose listing raises
\* no ClientError
RECURSIVE FilesOfListedPrefixes(_)
FilesOfListedPrefixes(k) ==
    IF k > Len(prefixes) THEN {}
    ELSE (IF list_prefix(prefixes[k]).result = None THEN {}
          ELSE Range(list_prefix(prefixes[k]).result))
             \cup FilesOfListedPrefixes(k + 1)

\* C30: a ClientError while one prefix is listed does not leave
\* list_log_files: it returns, and the list returned holds every log file
\* under the other prefixes and none under the failing one, in whatever order
\* the workers finish
C30_ClientErrorIsConfined ==
    /\ list_raised = ""
    /\ pc = "listed" => Range(all_files) = FilesOfListedPrefixes(1)
=============================================================================
